---- MODULE Spec2Model ----
(***************************************************************************)
(* Model of hexo-copilot's multi-provider LLM client (services/llmService) *)
(* and of the chat panel of App.tsx that drives it.                        *)
(*                                                                         *)
(* Strings are finite sequences of tokens.  A token is a TLA+ string that  *)
(* stands for a run of characters; the vendor domains "anthropic.com" and  *)
(* "googleapis.com" and the separators "/" and "?" are tokens of their     *)
(* own, and no other token (nor a concatenation of other tokens) contains  *)
(* them, so String.includes(needle) and the trailing-slash regular         *)
(* expression are exact on these strings.  Non-ASCII literals of the       *)
(* source are written in ASCII.                                            *)
(***************************************************************************)
EXTENDS Integers, Sequences, FiniteSets, TLC

VARIABLES
    heap,            \* ProviderConfig objects, by reference (1..Len(heap))
    sessions,        \* ChatSession objects, by reference (1..Len(sessions))
    calls,           \* ChatSession.sendMessage invocations suspended at an await
    last,            \* the sendMessage call, made on a session directly, that the last step settled
    config,          \* App: config state (AppConfig or null)
    isPathSet,       \* App: isPathSet state
    chatSessionRef,  \* App: chatSessionRef.current (0 = null)
    chatHistory,     \* App: chatHistory state (the visible bubbles)
    chatInput,       \* App: chatInput state
    draftResponse,   \* App: draftResponse state
    isAiThinking,    \* App: isAiThinking state
    showQuickSettings, \* App: showQuickSettings state
    localConfig,     \* QuickSettings: localConfig state
    isSaving,        \* QuickSettings: isSaving state
    saves,           \* realFileService.saveConfig requests awaited by a handler
    created,         \* the createChatSession call the last step made directly: argument and result
    items,           \* TrashView: items state (the listed trash paths)
    isLoading,       \* TrashView: isLoading state
    selected,        \* TrashView: selected state
    isBatchRunning,  \* TrashView: isBatchRunning state
    batchTotal,      \* TrashView: batchTotal state
    batchCompleted,  \* TrashView: batchCompleted state
    itemStatuses,    \* TrashView: itemStatuses state ("none" = no entry)
    batchControllerRef, \* TrashView: batchControllerRef.current (0 = null, else the batch it aborts)
    showBatchDeleteConfirm, \* TrashView: showBatchDeleteConfirm state
    input,           \* ConfirmModal (batch delete): input state
    batches,         \* restoreTrashBatch / permanentDeleteBatch invocations, in call order
    lists,           \* listTrash requests awaited by fetchTrash
    cancelled,       \* the paths whose restore request was pending at the last Cancel click
    currentFilename, \* App: currentFilename state ("" = null)
    editorContent,   \* App: editorContent state
    undoStack,       \* App: undoStack state
    redoStack,       \* App: redoStack state
    saveStatus,      \* App: saveStatus state
    lastContentRef,  \* App: lastContentRef.current
    undoStackTimerRef, \* App: the pending timer of undoStackTimerRef.current, by the newContent it closed over
    isLoadingFile,   \* App: isLoadingFile state
    posts,           \* the backend's posts: the content last written for each file
    postSaves,       \* realFileService.savePostContent requests awaited by handleSave
    postLoads,       \* realFileService.getPostContent requests awaited by handleFileClick
    held             \* the contents the editor has held since the last file was loaded

chatVars     == <<heap, sessions, calls, last>>
panelVars    == <<chatHistory, chatInput, draftResponse, isAiThinking>>
settingsVars == <<showQuickSettings, localConfig, isSaving, saves>>
trashVars    == <<items, isLoading, selected, isBatchRunning, batchTotal, batchCompleted, itemStatuses,
                  batchControllerRef, showBatchDeleteConfirm, input, batches, lists, cancelled>>
editorVars   == <<currentFilename, editorContent, undoStack, redoStack, saveStatus, lastContentRef,
                  undoStackTimerRef, isLoadingFile, posts, postSaves, postLoads, held>>
appVars      == <<config, isPathSet, chatSessionRef, created, panelVars, settingsVars, trashVars,
                  editorVars>>
vars         == <<chatVars, appVars>>

-----------------------------------------------------------------------------
(* The Trash view before it is opened: the useState defaults of TrashView  *)
(* and ConfirmModal.  itemStatuses maps a path to its status, "none"       *)
(* standing for a path without an entry.                                   *)

TrashPaths == {"a.md", "b.md"}

NoStatuses == [p \in TrashPaths |-> "none"]

TrashClosed ==
    /\ items = {}
    /\ isLoading = FALSE
    /\ selected = {}
    /\ isBatchRunning = FALSE
    /\ batchTotal = 0
    /\ batchCompleted = 0
    /\ itemStatuses = NoStatuses
    /\ batchControllerRef = 0
    /\ showBatchDeleteConfirm = FALSE
    /\ input = <<>>
    /\ batches = <<>>
    /\ lists = 0
    /\ cancelled = {}

-----------------------------------------------------------------------------
(* The editor before a file is opened: the useState and useRef defaults of *)
(* App, and the posts the backend holds.                                   *)

Files == {"a.md", "b.md"}

NoFile == ""

NoTimer == [pending |-> FALSE]

\* the posts on disk when the application starts
InitialPosts == [f \in Files |-> IF f = "a.md" THEN "A0" ELSE "B0"]

EditorIdle ==
    /\ currentFilename = NoFile
    /\ editorContent = ""
    /\ undoStack = <<>>
    /\ redoStack = <<>>
    /\ saveStatus = "saved"
    /\ lastContentRef = ""
    /\ undoStackTimerRef = NoTimer
    /\ isLoadingFile = FALSE
    /\ posts = InitialPosts
    /\ postSaves = <<>>
    /\ postLoads = <<>>
    /\ held = {}

-----------------------------------------------------------------------------
(* JavaScript values that can be null, undefined or a string.              *)

Null      == [t |-> "null"]
Undefined == [t |-> "undefined"]
Str(s)    == [t |-> "string", v |-> s]

\* JavaScript truthiness of a nullable string: !x is ~Truthy(x)
Truthy(x) == x.t = "string" /\ x.v # <<>>

\* String.prototype.includes for a needle that is one token
Includes(s, needle) == \E i \in 1..Len(s) : s[i] = needle

\* sub occurs in s as a run of consecutive tokens
Contains(s, sub) ==
    \E k \in 0..(Len(s) - Len(sub)) : SubSeq(s, k + 1, k + Len(sub)) = sub

StartsWith(s, p) == Len(s) >= Len(p) /\ SubSeq(s, 1, Len(p)) = p

\* s.replace(/\/$/, ''): drops one trailing slash
StripTrailingSlash(s) ==
    IF Len(s) > 0 /\ s[Len(s)] = "/" THEN SubSeq(s, 1, Len(s) - 1) ELSE s

\* the host of an absolute URL: what follows the scheme up to the first "/" or "?"
RECURSIVE UpToSep(_)
UpToSep(s) ==
    IF s = <<>> \/ Head(s) \in {"/", "?"} THEN <<>>
    ELSE <<Head(s)>> \o UpToSep(Tail(s))

Host(url) == IF url # <<>> /\ Head(url) = "https://" THEN UpToSep(Tail(url)) ELSE <<>>

-----------------------------------------------------------------------------
(* Provider registry                                                       *)

LLMProviders == {"openai", "claude", "gemini", "qwen", "deepseek"}

SYSTEM_INSTRUCTION == <<"You are an expert technical writing assistant for a Hexo blog.">>

defaultBaseUrl(p) ==
    CASE p = "openai"   -> <<"https://", "api.openai.com", "/", "v1">>
      [] p = "claude"   -> <<"https://", "api.", "anthropic.com">>
      [] p = "gemini"   -> <<"https://", "generativelanguage.", "googleapis.com", "/", "v1beta">>
      [] p = "qwen"     -> <<"https://", "dashscope.aliyuncs.com", "/", "compatible-mode", "/", "v1">>
      [] p = "deepseek" -> <<"https://", "api.deepseek.com", "/", "v1">>

defaultModel(p) ==
    CASE p = "openai"   -> <<"gpt-4o-mini">>
      [] p = "claude"   -> <<"claude-3-5-sonnet-20241022">>
      [] p = "gemini"   -> <<"gemini-2.0-flash-exp">>
      [] p = "qwen"     -> <<"qwen-plus">>
      [] p = "deepseek" -> <<"deepseek-chat">>

-----------------------------------------------------------------------------
(* Values of the wire: chat messages, parsed JSON, HTTP requests.          *)

ChatMessage(role, content) == [role |-> role, content |-> content]

Arr(xs) == [t |-> "array", v |-> xs]

Nullish(x) == x.t \in {"null", "undefined"}

\* JavaScript truthiness of a parsed JSON value
JsTruthy(x) ==
    CASE x.t \in {"null", "undefined"} -> FALSE
      [] x.t = "string"                -> x.v # <<>>
      [] OTHER                         -> TRUE

\* x.field of a non-nullish x
Get(x, field) ==
    IF x.t = "object" /\ field \in DOMAIN x THEN x[field] ELSE Undefined

\* x?.field
OptGet(x, field) == IF Nullish(x) THEN Undefined ELSE Get(x, field)

\* x?.[0]
OptFirst(x) ==
    IF x.t = "array" /\ Len(x.v) > 0 THEN x.v[1] ELSE Undefined

\* Array.prototype.join('\n') of an array of values: null and undefined print empty
RECURSIVE JoinLines(_)
JoinLines(xs) ==
    IF xs = <<>> THEN <<>>
    ELSE (CASE Head(xs).t = "string" -> Head(xs).v
            [] Head(xs).t = "number" -> << ToString(Head(xs).v) >>
            [] Head(xs).t = "object" -> << "[object Object]" >>
            [] Nullish(Head(xs))     -> <<>>)
         \o (IF Len(xs) > 1 THEN <<"\n">> \o JoinLines(Tail(xs)) ELSE <<>>)

\* the outcome of an async function: it returns a string or throws an Error
Return(s)  == [threw |-> FALSE, value |-> s]
Throw(msg) == [threw |-> TRUE,  value |-> msg]

NoRequest == [translator |-> "none"]

\* mutation of OpenAIRequest: only the turn just appended is sent
OpenAIRequest_LastOnly(baseUrl, apiKey, model, messages) ==
    [ translator |-> "openai",
      method     |-> "POST",
      url        |-> StripTrailingSlash(baseUrl) \o <<"/chat/completions">>,
      headers    |-> { <<"Content-Type", <<"application/json">>>>,
                       <<"Authorization", <<"Bearer ">> \o apiKey>> },
      body       |-> [ model       |-> model,
                       messages    |-> << messages[Len(messages)] >>,
                       temperature |-> "0.7",
                       max_tokens  |-> 4096 ] ]

\* the part of callOpenAICompatible before its first await: the fetch it issues
OpenAIRequest(baseUrl, apiKey, model, messages) ==
    [ translator |-> "openai",
      method     |-> "POST",
      url        |-> StripTrailingSlash(baseUrl) \o <<"/chat/completions">>,
      headers    |-> { <<"Content-Type", <<"application/json">>>>,
                       <<"Authorization", <<"Bearer ">> \o apiKey>> },
      body       |-> [ model       |-> model,
                       messages    |-> [i \in 1..Len(messages) |->
                                          ChatMessage(messages[i].role, messages[i].content)],
                       temperature |-> "0.7",
                       max_tokens  |-> 4096 ] ]

IsSystem(m)  == m.role = "system"
NotSystem(m) == m.role # "system"

\* messages.find(m => m.role === 'system')?.content
SystemContent(messages) ==
    LET sys == SelectSeq(messages, IsSystem)
    IN  IF sys = <<>> THEN Undefined ELSE Str(sys[1].content)

\* mutation of ClaudeRequest: the system message stays in the list
ClaudeRequest_SystemInList(baseUrl, apiKey, model, messages) ==
    LET sysc == SystemContent(messages)
    IN  [ translator |-> "claude",
          method     |-> "POST",
          url        |-> StripTrailingSlash(baseUrl) \o <<"/v1/messages">>,
          headers    |-> { <<"Content-Type", <<"application/json">>>>,
                           <<"x-api-key", apiKey>>,
                           <<"anthropic-version", <<"2023-06-01">>>> },
          body       |-> [ model      |-> model,
                           max_tokens |-> 4096,
                           system     |-> IF Truthy(sysc) THEN sysc.v ELSE <<>>,
                           messages   |-> [i \in 1..Len(messages) |->
                                ChatMessage(IF messages[i].role = "assistant"
                                            THEN "assistant" ELSE "user",
                                            messages[i].content)] ] ]

\* the part of callClaude before its first await
ClaudeRequest(baseUrl, apiKey, model, messages) ==
    LET sysc == SystemContent(messages)
        rest == SelectSeq(messages, NotSystem)
    IN  [ translator |-> "claude",
          method     |-> "POST",
          url        |-> StripTrailingSlash(baseUrl) \o <<"/v1/messages">>,
          headers    |-> { <<"Content-Type", <<"application/json">>>>,
                           <<"x-api-key", apiKey>>,
                           <<"anthropic-version", <<"2023-06-01">>>> },
          body       |-> [ model      |-> model,
                           max_tokens |-> 4096,
                           system     |-> IF Truthy(sysc) THEN sysc.v ELSE <<>>,
                           messages   |-> [i \in 1..Len(rest) |->
                                ChatMessage(IF rest[i].role = "assistant"
                                            THEN "assistant" ELSE "user",
                                            rest[i].content)] ] ]

\* mutation of GeminiRequest: the credential is also sent as a header
GeminiRequest_KeyHeader(baseUrl, apiKey, model, messages) ==
    LET sysc == SystemContent(messages)
        rest == SelectSeq(messages, NotSystem)
    IN  [ translator |-> "gemini",
          method     |-> "POST",
          url        |-> StripTrailingSlash(baseUrl) \o <<"/models/">> \o model
                           \o <<":generateContent?key=">> \o apiKey,
          headers    |-> { <<"Content-Type", <<"application/json">>>>,
                           <<"x-goog-api-key", apiKey>> },
          body       |-> [ contents |-> [i \in 1..Len(rest) |->
                                [ role  |-> IF rest[i].role = "assistant"
                                            THEN "model" ELSE "user",
                                  parts |-> << [text |-> rest[i].content] >> ]],
                           generationConfig  |-> [ temperature     |-> "0.7",
                                                   maxOutputTokens |-> 4096 ],
                           systemInstruction |->
                                IF Truthy(sysc) THEN [ parts |-> << [text |-> sysc.v] >> ]
                                ELSE Undefined ] ]

\* the part of callGemini before its first await
GeminiRequest(baseUrl, apiKey, model, messages) ==
    LET sysc == SystemContent(messages)
        rest == SelectSeq(messages, NotSystem)
    IN  [ translator |-> "gemini",
          method     |-> "POST",
          url        |-> StripTrailingSlash(baseUrl) \o <<"/models/">> \o model
                           \o <<":generateContent?key=">> \o apiKey,
          headers    |-> { <<"Content-Type", <<"application/json">>>> },
          body       |-> [ contents |-> [i \in 1..Len(rest) |->
                                [ role  |-> IF rest[i].role = "assistant"
                                            THEN "model" ELSE "user",
                                  parts |-> << [text |-> rest[i].content] >> ]],
                           generationConfig  |-> [ temperature     |-> "0.7",
                                                   maxOutputTokens |-> 4096 ],
                           systemInstruction |->
                                IF Truthy(sysc) THEN [ parts |-> << [text |-> sysc.v] >> ]
                                ELSE Undefined ] ]

\* mutation of Route: the base URL is looked at before the provider
Route_UrlFirst(provider, baseUrl) ==
    IF Includes(baseUrl, "anthropic.com") THEN "claude"
    ELSE IF Includes(baseUrl, "googleapis.com") THEN "gemini"
    ELSE IF provider \in LLMProviders THEN "openai" ELSE "unsupported"

\* the switch of callAPI: the translator for a provider and its effective base
\* URL; a provider outside the table reaches the default branch
Route(provider, baseUrl) ==
    CASE provider \in {"openai", "qwen", "deepseek"} -> "openai"
      [] provider = "claude" ->
            IF ~Includes(baseUrl, "anthropic.com") THEN "openai" ELSE "claude"
      [] provider = "gemini" ->
            IF ~Includes(baseUrl, "googleapis.com") THEN "openai" ELSE "gemini"
      [] OTHER -> "unsupported"

BuildRequest(translator, baseUrl, apiKey, model, messages) ==
    CASE translator = "openai" -> OpenAIRequest(baseUrl, apiKey, model, messages)
      [] translator = "claude" -> ClaudeRequest(baseUrl, apiKey, model, messages)
      [] translator = "gemini" -> GeminiRequest(baseUrl, apiKey, model, messages)

TypeErrorMessage == <<"Cannot read properties of undefined">>

\* mutation of ApiKeyMissing: the credential is compared with null only
ApiKeyMissing_NullOnly(apiKey) == apiKey.t = "null"

\* !apiKey
ApiKeyMissing(apiKey) == ~Truthy(apiKey)

\* this.config.base_url || PROVIDER_DEFAULTS[this.provider].defaultBaseUrl
EffectiveBaseUrl(provider, cfg) ==
    IF Truthy(cfg.base_url) THEN cfg.base_url.v ELSE defaultBaseUrl(provider)

\* this.config.model || PROVIDER_DEFAULTS[this.provider].defaultModel
EffectiveModel(provider, cfg) ==
    IF Truthy(cfg.model) THEN cfg.model.v ELSE defaultModel(provider)

\* mutation of callAPI: the credential is not looked at before the request is built
callAPI_NoKeyCheck(provider, cfg, messages) ==
    IF provider \notin LLMProviders
    THEN [thrown |-> TRUE, message |-> TypeErrorMessage, req |-> NoRequest]
    ELSE
      LET baseUrl == EffectiveBaseUrl(provider, cfg)
          model   == EffectiveModel(provider, cfg)
          apiKey  == IF cfg.api_key.t = "string" THEN cfg.api_key.v ELSE <<cfg.api_key.t>>
      IN  [thrown |-> FALSE, message |-> <<>>,
           req |-> BuildRequest(Route(provider, baseUrl), baseUrl, apiKey, model, messages)]

\* ChatSession.callAPI up to the fetch: it throws, or one request goes out.
\* PROVIDER_DEFAULTS[provider] is undefined for a provider outside the table, and
\* reading a property of it throws a TypeError.
callAPI(provider, cfg, messages) ==
    IF ApiKeyMissing(cfg.api_key)
    THEN [thrown |-> TRUE, message |-> <<"API Key not configured">>, req |-> NoRequest]
    ELSE IF provider \notin LLMProviders /\ (~Truthy(cfg.base_url) \/ ~Truthy(cfg.model))
    THEN [thrown |-> TRUE, message |-> TypeErrorMessage, req |-> NoRequest]
    ELSE
      LET baseUrl    == EffectiveBaseUrl(provider, cfg)
          model      == EffectiveModel(provider, cfg)
          translator == Route(provider, baseUrl)
      IN  IF translator = "unsupported"
          THEN [thrown |-> TRUE, message |-> <<"Unsupported provider: ", provider>>,
                req |-> NoRequest]
          ELSE [thrown |-> FALSE, message |-> <<>>,
                req |-> BuildRequest(translator, baseUrl, cfg.api_key.v, model, messages)]

-----------------------------------------------------------------------------
(* HTTP responses and how each translator reads them.                      *)

\* Response.ok
ResponseOk(resp) == resp.status \in 200..299

\* mutation of HttpErrorMessage: the body text is left out
HttpErrorMessage_StatusOnly(resp) ==
    <<"API request failed (", ToString(resp.status), ")">>

HttpErrorMessage(resp) ==
    <<"API request failed (", ToString(resp.status), "): ">> \o resp.text

IsTextPart(part) == Get(part, "type") = Str(<<"text">>)

\* mutation of DecodeOpenAI: the parts are not filtered by type
DecodeOpenAI_AllParts(data) ==
    IF Nullish(data) THEN Throw(TypeErrorMessage)
    ELSE
      LET choice0 == OptFirst(Get(data, "choices")) IN
      IF ~JsTruthy(choice0) THEN Return(<<>>)
      ELSE LET message == Get(choice0, "message") IN
        IF ~JsTruthy(message) THEN Return(<<>>)
        ELSE LET content == Get(message, "content") IN
          IF content.t = "string" THEN Return(content.v)
          ELSE IF content.t = "array"
          THEN IF \E i \in 1..Len(content.v) : Nullish(content.v[i])
               THEN Throw(TypeErrorMessage)
               ELSE Return(JoinLines([i \in 1..Len(content.v) |-> Get(content.v[i], "text")]))
          ELSE Return(<<>>)

\* callOpenAICompatible after response.json(): reading choices[0].message.content
DecodeOpenAI(data) ==
    IF Nullish(data) THEN Throw(TypeErrorMessage)
    ELSE
      LET choice0 == OptFirst(Get(data, "choices")) IN
      IF ~JsTruthy(choice0) THEN Return(<<>>)
      ELSE LET message == Get(choice0, "message") IN
        IF ~JsTruthy(message) THEN Return(<<>>)
        ELSE LET content == Get(message, "content") IN
          IF content.t = "string" THEN Return(content.v)
          ELSE IF content.t = "array"
          THEN IF \E i \in 1..Len(content.v) : Nullish(content.v[i])
               THEN Throw(TypeErrorMessage)
               ELSE LET texts == SelectSeq(content.v, IsTextPart)
                        textParts == JoinLines([i \in 1..Len(texts) |-> Get(texts[i], "text")])
                    IN  Return(textParts)
          ELSE Return(<<>>)

\* x || '' for a value read from the body
OrEmpty(x) == IF x.t = "string" THEN x.v ELSE <<>>

\* callClaude after response.json(): data.content?.[0]?.text || ''
DecodeClaude(data) ==
    IF Nullish(data) THEN Throw(TypeErrorMessage)
    ELSE Return(OrEmpty(OptGet(OptFirst(Get(data, "content")), "text")))

\* mutation of DecodeGemini: data.candidates[0].content.parts[0].text || '',
\* without optional chaining
DecodeGemini_Strict(data) ==
    LET candidate == OptFirst(OptGet(data, "candidates"))
        content   == OptGet(candidate, "content")
        part      == OptFirst(OptGet(content, "parts"))
    IN  IF Nullish(data) \/ Nullish(OptGet(data, "candidates")) \/ Nullish(candidate)
           \/ Nullish(content) \/ Nullish(OptGet(content, "parts")) \/ Nullish(part)
        THEN Throw(TypeErrorMessage)
        ELSE Return(OrEmpty(Get(part, "text")))

\* callGemini after response.json(): data.candidates?.[0]?.content?.parts?.[0]?.text || ''
DecodeGemini(data) ==
    IF Nullish(data) THEN Throw(TypeErrorMessage)
    ELSE Return(OrEmpty(
            OptGet(OptFirst(OptGet(OptGet(OptFirst(Get(data, "candidates")),
                                          "content"), "parts")), "text")))

\* What the translator that issued the request makes of the response:
\* fetch rejects; or the status is not 2xx; or response.json() rejects; or the
\* parsed body is decoded.
Translate(translator, resp) ==
    IF resp.kind = "network" THEN Throw(<<"Failed to fetch">>)
    ELSE IF ~ResponseOk(resp) THEN Throw(HttpErrorMessage(resp))
    ELSE IF resp.json.t = "syntaxerror" THEN Throw(<<"Unexpected token < in JSON">>)
    ELSE CASE translator = "openai" -> DecodeOpenAI(resp.json)
           [] translator = "claude" -> DecodeClaude(resp.json)
           [] translator = "gemini" -> DecodeGemini(resp.json)

Obj(fields) == [t |-> "object"] @@ fields

\* bodies a server can answer with
BodyOpenAIString == Obj([choices |-> Arr(<< Obj([message |-> Obj([content |-> Str(<<"hi">>)])]) >>)])
BodyOpenAIParts ==
    Obj([choices |-> Arr(<< Obj([message |-> Obj([content |->
        Arr(<< Obj([type |-> Str(<<"thinking">>), text |-> Str(<<"hmm">>)]),
               Obj([type |-> Str(<<"text">>), text |-> Str(<<"a">>)]),
               Obj([type |-> Str(<<"text">>), text |-> Str(<<"b">>)]) >>)])]) >>)])
BodyOpenAINoChoice == Obj([choices |-> Arr(<<>>)])
BodyClaude == Obj([content |-> Arr(<< Obj([type |-> Str(<<"text">>), text |-> Str(<<"hi">>)]) >>)])
BodyGemini ==
    Obj([candidates |-> Arr(<< Obj([content |->
        Obj([parts |-> Arr(<< Obj([text |-> Str(<<"hi">>)]) >>)])]) >>)])
BodyAny ==
    Obj([choices    |-> Arr(<< Obj([message |-> Obj([content |-> Str(<<"hi">>)])]) >>),
         content    |-> Arr(<< Obj([type |-> Str(<<"text">>), text |-> Str(<<"hi">>)]) >>),
         candidates |-> Arr(<< Obj([content |->
                               Obj([parts |-> Arr(<< Obj([text |-> Str(<<"hi">>)]) >>)])]) >>)])
BodyEmpty == Obj([id |-> Str(<<"x">>)])
BodyNull == Null
BodyHtml == [t |-> "syntaxerror"]

HttpResponse(status, text, json) ==
    [kind |-> "http", status |-> status, text |-> text, json |-> json]

\* what the network answers a chat session's fetch with
Responses ==
    { [kind |-> "network"],
      HttpResponse(500, <<"boom">>, BodyHtml),
      HttpResponse(200, <<"<html>">>, BodyHtml),
      HttpResponse(200, <<"{...}">>, BodyAny),
      HttpResponse(200, <<"{}">>, BodyEmpty) }

-----------------------------------------------------------------------------
(* ChatSession                                                             *)

MaxHistory  == 3   \* sendMessage is not started on a history this long
MaxInFlight == 2   \* sendMessage invocations suspended together

Texts == { <<"q1">> }

ProviderConfig(apiKey, baseUrl, model) ==
    [api_key |-> apiKey, base_url |-> baseUrl, model |-> model]

\* new ChatSession(provider, config): config is kept by reference; born records
\* what the referenced object held at construction (history variable)
NewChatSession(provider, ref, cfg) ==
    [ provider |-> provider,
      config   |-> ref,
      messages |-> << ChatMessage("system", SYSTEM_INSTRUCTION) >>,
      born     |-> cfg ]

NoCall == [sess |-> 0]

\* another call on session s starts while these are suspended
Overlapped(cs, s) ==
    [i \in 1..Len(cs) |-> IF cs[i].sess = s THEN [cs[i] EXCEPT !.alone = FALSE] ELSE cs[i]]

RemoveAt(seq, i) == SubSeq(seq, 1, i - 1) \o SubSeq(seq, i + 1, Len(seq))

\* ChatSession.sendMessage up to its await, on sessions ss with calls cs
\* suspended: the user turn is pushed and callAPI runs until it throws or its
\* fetch is issued.  ui tells whether handleSendMessage awaits the call.
Started(ss, cs, s, text, ui) ==
    LET before == ss[s].messages
        msgs   == Append(before, ChatMessage("user", text))
        api    == callAPI(ss[s].provider, heap[ss[s].config], msgs)
    IN  [ sessions |-> [ss EXCEPT ![s].messages = msgs],
          calls    |-> Append(Overlapped(cs, s),
                           [ sess    |-> s,
                             text    |-> text,
                             ui      |-> ui,
                             thrown  |-> api.thrown,
                             message |-> api.message,
                             req     |-> api.req,
                             fetches |-> IF api.req = NoRequest THEN 0 ELSE 1,
                             preLen  |-> Len(before),
                             alone   |-> \A i \in 1..Len(cs) : cs[i].sess # s ]) ]

\* session.sendMessage(text) up to its await
SendMessageStart(s, text, ui) ==
    LET st == Started(sessions, calls, s, text, ui)
    IN  /\ sessions' = st.sessions
        /\ calls' = st.calls
        /\ last' = NoCall

\* mutation of SendMessageCatch: the error is thrown on to the caller
SendMessageCatch_Rethrow(messages, message) ==
    [ messages |-> messages, settled |-> "rejected", value |-> message ]

\* mutation of SendMessageCatch: the user turn of the failed call is taken back
SendMessageCatch_Rollback(messages, message) ==
    [ messages |-> SubSeq(messages, 1, Len(messages) - 1),
      settled  |-> "resolved",
      value    |-> <<"Error: ">> \o message ]

\* the catch block of sendMessage
SendMessageCatch(messages, message) ==
    [ messages |-> messages,
      settled  |-> "resolved",
      value    |-> <<"Error: ">> \o (IF message # <<>> THEN message
                                     ELSE <<"Unknown error occurred">>) ]

\* mutation of SendMessageResume: the reply is returned but not recorded
SendMessageResume_NoPush(messages, adapter) ==
    IF ~adapter.threw
    THEN [ messages |-> messages, settled |-> "resolved", value |-> adapter.value ]
    ELSE [ messages |-> messages, settled |-> "resolved",
           value |-> <<"Error: ">> \o adapter.value ]

\* mutation of SendMessageResume: a failure is recorded as an assistant turn
SendMessageResume_PushError(messages, adapter) ==
    LET text == IF adapter.threw THEN <<"Error: ">> \o adapter.value ELSE adapter.value
    IN  [ messages |-> Append(messages, ChatMessage("assistant", text)),
          settled  |-> "resolved",
          value    |-> text ]

\* sendMessage after its await: callAPI returned or threw
SendMessageResume(messages, adapter) ==
    IF ~adapter.threw
    THEN [ messages |-> Append(messages, ChatMessage("assistant", adapter.value)),
           settled  |-> "resolved",
           value    |-> adapter.value ]
    ELSE SendMessageCatch(messages, adapter.value)

Bubble(role, text) == [role |-> role, text |-> text]

\* handleSendMessage after its await of sendMessage(...): the reply becomes a model
\* bubble and the draft; a rejection becomes the apology bubble; finally the
\* thinking flag is cleared
HandleSendMessageResume(out) ==
    /\ chatHistory' = Append(chatHistory,
            Bubble("model", IF out.settled = "resolved" THEN out.value
                            ELSE <<"Sorry, the request failed, please check the API configuration.">>))
    /\ draftResponse' = IF out.settled = "resolved" THEN out.value ELSE draftResponse
    /\ isAiThinking' = FALSE
    /\ UNCHANGED <<trashVars, editorVars, chatInput, config, isPathSet, chatSessionRef, created, settingsVars>>

\* no response: the call made no request
NoResponse == [kind |-> "none"]

\* suspended call i resumes with the adapter's outcome (what its translator made
\* of response resp) and settles; the handleSendMessage that awaits it, if one
\* does, resumes in turn
SendMessageSettle(i, resp, adapter) ==
    LET c   == calls[i]
        out == SendMessageResume(sessions[c.sess].messages, adapter)
    IN  /\ sessions' = [sessions EXCEPT ![c.sess].messages = out.messages]
        /\ IF c.ui THEN HandleSendMessageResume(out) ELSE UNCHANGED appVars
        /\ calls' = RemoveAt(calls, i)
        /\ last' = IF c.ui THEN NoCall ELSE
                   [ sess       |-> c.sess,
                     text       |-> c.text,
                     translator |-> c.req.translator,
                     fetches    |-> c.fetches,
                     preLen     |-> c.preLen,
                     alone      |-> c.alone,
                     resp       |-> resp,
                     adapter    |-> adapter,
                     settled    |-> out.settled,
                     value      |-> out.value ]

\* mutation of ResetSession: the history is kept
ResetSession_Keep(s) ==
    /\ sessions' = sessions
    /\ calls' = Overlapped(calls, s)
    /\ last' = NoCall

\* mutation of ResetSession: the history is emptied
ResetSession_Empty(s) ==
    /\ sessions' = [sessions EXCEPT ![s].messages = <<>>]
    /\ calls' = Overlapped(calls, s)
    /\ last' = NoCall

\* ChatSession.reset
ResetSession(s) ==
    /\ sessions' = [sessions EXCEPT ![s].messages = << ChatMessage("system", SYSTEM_INSTRUCTION) >>]
    /\ calls' = Overlapped(calls, s)
    /\ last' = NoCall

-----------------------------------------------------------------------------
(* createChatSession                                                       *)

NoSession == [provider |-> "free"]

\* config.providers[provider]: 0 stands for undefined
ProviderRef(cfg, provider) ==
    IF provider \in DOMAIN cfg.providers THEN cfg.providers[provider] ELSE 0

\* mutation of HasApiKey: only null counts as no credential
HasApiKey_NotNull(cfg, provider) ==
    /\ ProviderRef(cfg, provider) # 0
    /\ heap[ProviderRef(cfg, provider)].api_key.t # "null"

\* providerConfig?.api_key is truthy
HasApiKey(cfg, provider) ==
    /\ ProviderRef(cfg, provider) # 0
    /\ Truthy(heap[ProviderRef(cfg, provider)].api_key)

\* createChatSession(config): null, or a new session holding the selected
\* provider's configuration object
createChatSession(cfg) ==
    LET provider == cfg.llm_provider
        ref      == ProviderRef(cfg, provider)
    IN  IF ~HasApiKey(cfg, provider) THEN NoSession
        ELSE NewChatSession(provider, ref, heap[ref])

\* chatSessionRef.current = createChatSession(cfg)
AssignSession(cfg) ==
    LET r == createChatSession(cfg) IN
    /\ sessions' = IF r = NoSession THEN sessions ELSE Append(sessions, r)
    /\ chatSessionRef' = IF r = NoSession THEN 0 ELSE Len(sessions) + 1

-----------------------------------------------------------------------------
(* SpecSession: one ChatSession, constructed with any provider and         *)
(* configuration, under every sequence of sendMessage and reset calls.     *)

ProxyUrl == <<"https://", "my-proxy.example.com", "/", "v1">>

SessionInputs ==
    { <<"openai", ProviderConfig(Str(<<"sk-1">>), Str(defaultBaseUrl("openai")), Str(defaultModel("openai")))>>,
      <<"openai", ProviderConfig(Null, Str(defaultBaseUrl("openai")), Str(defaultModel("openai")))>>,
      <<"qwen",   ProviderConfig(Str(<<>>), Null, Null)>>,
      <<"claude", ProviderConfig(Str(<<"sk-1">>), Undefined, Undefined)>>,
      <<"gemini", ProviderConfig(Str(<<"sk-1">>), Str(ProxyUrl), Null)>>,
      <<"mistral", ProviderConfig(Str(<<"sk-1">>), Str(ProxyUrl), Str(<<"m">>))>>,
      <<"mistral", ProviderConfig(Str(<<"sk-1">>), Null, Null)>> }

AppIdle ==
    /\ config = Null
    /\ isPathSet = FALSE
    /\ chatSessionRef = 0
    /\ chatHistory = <<>>
    /\ chatInput = <<>>
    /\ draftResponse = <<>>
    /\ isAiThinking = FALSE
    /\ showQuickSettings = FALSE
    /\ localConfig = Null
    /\ isSaving = FALSE
    /\ saves = <<>>
    /\ created = NoCall
    /\ TrashClosed
    /\ EditorIdle

InitSession ==
    /\ \E in \in SessionInputs :
         /\ heap = << in[2] >>
         /\ sessions = << NewChatSession(in[1], 1, in[2]) >>
    /\ calls = <<>>
    /\ last = NoCall
    /\ AppIdle

SendMessage ==
    \E s \in 1..Len(sessions), text \in Texts :
       /\ Len(sessions[s].messages) < MaxHistory
       /\ Len(calls) < MaxInFlight
       /\ SendMessageStart(s, text, FALSE)
       /\ UNCHANGED <<heap, appVars>>

\* a call whose callAPI threw before any fetch resumes in its catch block
SettleThrown ==
    \E i \in 1..Len(calls) :
       /\ calls[i].thrown
       /\ SendMessageSettle(i, NoResponse, Throw(calls[i].message))
       /\ UNCHANGED heap

\* the response to a call's fetch arrives (or the fetch fails)
FetchSettles(resps) ==
    \E i \in 1..Len(calls), resp \in resps :
       /\ ~calls[i].thrown
       /\ SendMessageSettle(i, resp, Translate(calls[i].req.translator, resp))
       /\ UNCHANGED heap

SettleFetch == FetchSettles(Responses)

Reset ==
    \E s \in 1..Len(sessions) :
       /\ ResetSession(s)
       /\ UNCHANGED <<heap, appVars>>

NextSession == SendMessage \/ SettleThrown \/ SettleFetch \/ Reset

SpecSession == InitSession /\ [][NextSession]_vars

-----------------------------------------------------------------------------
(* Claims about ChatSession, checked under SpecSession                     *)

Live == { s \in 1..Len(sessions) : sessions[s].provider # "free" }

History(s) == sessions[s].messages

Settled == last # NoCall

\* the credential the session of suspended call i holds
CallCredential(i) == heap[sessions[calls[i].sess].config].api_key

\* the credential the session of the settled call holds
LastKey == heap[sessions[last.sess].config].api_key

\* C1: every session's history has length >= 1, its first element is the system
\* instruction with role system, and no later element has role system.
C1_SystemFirstOnce ==
    \A s \in Live :
       /\ Len(History(s)) >= 1
       /\ History(s)[1] = ChatMessage("system", SYSTEM_INSTRUCTION)
       /\ \A i \in 2..Len(History(s)) : History(s)[i].role # "system"

\* C1 witness: a call that another call or a reset overlapped has settled, and
\* the history holds turns
C1_Witness ==
    /\ Settled
    /\ ~last.alone
    /\ Len(History(last.sess)) >= 3

\* C2: when a sendMessage whose adapter call returned reply r settles, and no other
\* call on the session (sendMessage or reset) ran between its start and its end,
\* the history is the history at its start plus two entries, the user turn with
\* the text sent and then the assistant turn with r, and the call resolves to r.
C2_SuccessAppendsTwo ==
    (Settled /\ ~last.adapter.threw /\ last.alone) =>
        LET h == History(last.sess) IN
        /\ Len(h) = last.preLen + 2
        /\ h[last.preLen + 1] = ChatMessage("user", last.text)
        /\ h[last.preLen + 2] = ChatMessage("assistant", last.adapter.value)
        /\ last.settled = "resolved"
        /\ last.value = last.adapter.value

\* C2 witness: a successful call that started after an earlier failed one
C2_Witness ==
    /\ Settled /\ ~last.adapter.threw /\ last.alone
    /\ last.preLen = 2
    /\ last.adapter.value = <<"hi">>

\* C3: when a sendMessage whose request failed (network error, status not 2xx,
\* unparsable body) settles, it resolves to a string starting with "Error: "; and
\* if no other call on the session ran meanwhile the history is the history at
\* its start plus the user turn alone.
C3_FailureAppendsOne ==
    (Settled /\ last.adapter.threw /\ last.translator # "none") =>
        /\ last.settled = "resolved"
        /\ StartsWith(last.value, <<"Error: ">>)
        /\ last.alone =>
             LET h == History(last.sess) IN
             /\ Len(h) = last.preLen + 1
             /\ h[last.preLen + 1] = ChatMessage("user", last.text)

\* C3 witness: a request answered with status 500
C3_Witness ==
    /\ Settled /\ last.alone /\ last.translator = "openai"
    /\ last.value = <<"Error: ", "API request failed (", "500", "): ", "boom">>

SettleStep == Len(calls') < Len(calls)

\* C4: every step that settles a sendMessage resolves its promise with a string,
\* whatever the adapter did; when the adapter threw, the step leaves every
\* history as it was and the string starts with "Error: ".
C4_NeverRejects ==
    [][ SettleStep =>
          /\ last'.settled = "resolved"
          /\ last'.adapter.threw =>
               /\ StartsWith(last'.value, <<"Error: ">>)
               /\ sessions' = sessions ]_vars

\* C4 witness: a call on a session of a provider outside the table has settled
C4_Witness ==
    /\ Settled
    /\ last.value = <<"Error: ", "Unsupported provider: ", "mistral">>

\* C5: a sendMessage on a session whose credential is null, undefined or empty
\* issues no request; it resolves to a string starting with "Error: ", and (no
\* other call meanwhile) leaves the history with the user turn alone added.
C5_NoKeyNoRequest ==
    /\ \A i \in 1..Len(calls) :
          ~Truthy(heap[sessions[calls[i].sess].config].api_key) =>
              calls[i].thrown /\ calls[i].req = NoRequest
    /\ (Settled /\ ~Truthy(LastKey)) =>
          /\ last.translator = "none"
          /\ StartsWith(last.value, <<"Error: ">>)
          /\ last.alone =>
               LET h == History(last.sess) IN
               /\ Len(h) = last.preLen + 1
               /\ h[last.preLen + 1] = ChatMessage("user", last.text)

\* C5 witness: a call on a session constructed with the empty string as credential
C5_Witness ==
    /\ Settled /\ last.alone
    /\ LastKey = Str(<<>>)
    /\ last.value = <<"Error: ", "API Key not configured">>

\* C11: a session just constructed has the system instruction as its whole
\* history; every reset, from whatever state, leaves the session's history equal
\* to the system instruction alone and touches no other session; and a reset of
\* a session on which no call is suspended and whose history is already the
\* system instruction alone (as after a reset) changes nothing, so that reset
\* followed by reset is one reset.
C11_ResetToSystemOnly ==
    /\ \A s \in Live : History(s) = << ChatMessage("system", SYSTEM_INSTRUCTION) >>
    /\ [][ \A s \in Live :
             ResetSession(s) =>
                /\ sessions'[s].messages = << ChatMessage("system", SYSTEM_INSTRUCTION) >>
                /\ \A t \in Live \ {s} : sessions'[t] = sessions[t]
                /\ Len(sessions') = Len(sessions)
                /\ (/\ History(s) = << ChatMessage("system", SYSTEM_INSTRUCTION) >>
                    /\ \A i \in 1..Len(calls) : calls[i].sess # s)
                     => (sessions' = sessions /\ calls' = calls) ]_vars

\* C11 witness: a sendMessage that pushed its user turn is still suspended and
\* the history is the system instruction alone: a reset ran after the push
C11_Witness ==
    \E i \in 1..Len(calls) :
       /\ calls[i].preLen >= 2
       /\ ~calls[i].alone
       /\ History(calls[i].sess) = << ChatMessage("system", SYSTEM_INSTRUCTION) >>

\* the requests that are outstanding
Outstanding(cs) == { i \in 1..Len(cs) : cs[i].req # NoRequest }

\* C12: a sendMessage invocation makes at most one fetch: one, outstanding while
\* the invocation is suspended, when the session's credential is a non-empty
\* string (the provider being one of the five of the table), none when the
\* credential is null, undefined or empty; and the step in which an invocation
\* settles, with a reply or a failure, ends its request and issues no other.
C12_OneRequest ==
    /\ [](\A i \in 1..Len(calls) :
            /\ calls[i].fetches <= 1
            /\ calls[i].fetches = 1 <=> i \in Outstanding(calls)
            /\ ~Truthy(CallCredential(i)) => calls[i].fetches = 0
            /\ (Truthy(CallCredential(i)) /\ sessions[calls[i].sess].provider \in LLMProviders)
                  => calls[i].fetches = 1)
    /\ [][ SettleStep =>
             /\ last'.fetches <= 1
             /\ Len(calls') = Len(calls) - 1
             /\ Cardinality(Outstanding(calls')) =
                   Cardinality(Outstanding(calls)) - last'.fetches ]_vars

\* C12 witness: an invocation whose request was answered with status 500 has
\* settled while another invocation's request is still outstanding
C12_Witness ==
    /\ Settled
    /\ last.fetches = 1
    /\ last.value = <<"Error: ", "API request failed (", "500", "): ", "boom">>
    /\ Cardinality(Outstanding(calls)) = 1

IsPrefix(h, g) == Len(h) <= Len(g) /\ SubSeq(g, 1, Len(h)) = h

\* C22: every step of a sendMessage, its start and its return, whether the call
\* succeeds or fails, leaves the history it found as a prefix of the history it
\* leaves; a step after which a session's former history is not a prefix of its
\* history is a reset of that session.
C22_AppendOnly ==
    [][ /\ (SendMessage \/ SettleThrown \/ SettleFetch) =>
              \A s \in Live : IsPrefix(History(s), sessions'[s].messages)
        /\ \A s \in Live :
              ~IsPrefix(History(s), sessions'[s].messages) =>
                  (ResetSession(s) /\ Len(History(s)) > 1) ]_vars

\* C22 witness: a call has failed and a later call has started on the same
\* session, the failed call's user turn still in place
C22_Witness ==
    \E s \in Live :
       /\ Len(History(s)) = 3
       /\ History(s)[2].role = "user" /\ History(s)[3].role = "user"
       /\ \E i \in 1..Len(calls) : calls[i].sess = s /\ calls[i].preLen = 2 /\ calls[i].alone

-----------------------------------------------------------------------------
(* SpecDecode: sessions of the three translators, answered with status 200 *)
(* and every shape of parsed body.                                         *)

Num(n) == [t |-> "number", v |-> n]

Choice(message) == Obj([choices |-> Arr(<< Obj([index |-> Num(0), message |-> message]) >>)])

Content(content) == Choice(Obj([role |-> Str(<<"assistant">>), content |-> content]))

TextPart(text) == Obj([type |-> Str(<<"text">>), text |-> Str(text)])

\* parsed bodies that lack the reply field of the OpenAI-compatible format
OpenAILacking ==
    { BodyEmpty,
      BodyOpenAINoChoice,
      Obj([choices |-> Null]),
      Obj([choices |-> Arr(<< Obj([index |-> Num(0)]) >>)]),
      Choice(Null),
      Choice(Obj([role |-> Str(<<"assistant">>)])),
      Content(Null),
      Content(Num(42)),
      Content(Obj([text |-> Str(<<"hi">>)])) }

\* parsed bodies that lack the reply field of the Anthropic format
ClaudeLacking ==
    { BodyEmpty,
      Obj([content |-> Arr(<<>>)]),
      Obj([content |-> Null]),
      Obj([content |-> Arr(<< Obj([type |-> Str(<<"tool_use">>)]) >>)]),
      Obj([content |-> Arr(<< Null >>)]) }

\* parsed bodies that lack the reply field of the Google format
GeminiLacking ==
    { BodyEmpty,
      Obj([candidates |-> Arr(<<>>)]),
      Obj([candidates |-> Arr(<< Obj([finishReason |-> Str(<<"SAFETY">>)]) >>)]),
      Obj([candidates |-> Arr(<< Obj([content |-> Obj([role |-> Str(<<"model">>)])]) >>)]),
      Obj([candidates |-> Arr(<< Obj([content |-> Obj([parts |-> Arr(<<>>)])]) >>)]),
      Obj([candidates |-> Arr(<< Obj([content |-> Obj([parts |-> Arr(<< Obj([inlineData |-> Str(<<"x">>)]) >>)])]) >>)]) }

Lacking(translator) ==
    CASE translator = "openai" -> OpenAILacking
      [] translator = "claude" -> ClaudeLacking
      [] translator = "gemini" -> GeminiLacking
      [] OTHER -> {}

\* content given as an array of parts
PartsBodies ==
    { BodyOpenAIParts,
      Content(Arr(<<>>)),
      Content(Arr(<< TextPart(<<"a">>) >>)),
      Content(Arr(<< TextPart(<<"a">>), Obj([type |-> Str(<<"image_url">>), text |-> Str(<<"x">>)]),
                     TextPart(<<"b">>) >>)),
      Content(Arr(<< Obj([type |-> Str(<<"thinking">>), thinking |-> Str(<<"hmm">>)]) >>)),
      Content(Arr(<< TextPart(<<"b">>), TextPart(<<>>), TextPart(<<"a">>) >>)) }

DecodeBodies ==
    OpenAILacking \cup ClaudeLacking \cup GeminiLacking \cup PartsBodies
    \cup { BodyOpenAIString, Content(Str(<<>>)), BodyClaude, BodyGemini, BodyNull }

DecodeResponses == { HttpResponse(200, <<"{...}">>, b) : b \in DecodeBodies }

DecodeInputs ==
    { <<"openai", ProviderConfig(Str(<<"sk-1">>), Null, Null)>>,
      <<"claude", ProviderConfig(Str(<<"sk-1">>), Null, Null)>>,
      <<"gemini", ProviderConfig(Str(<<"sk-1">>), Null, Null)>> }

InitDecode ==
    /\ \E in \in DecodeInputs :
         /\ heap = << in[2] >>
         /\ sessions = << NewChatSession(in[1], 1, in[2]) >>
    /\ calls = <<>>
    /\ last = NoCall
    /\ AppIdle

BodyArrives == FetchSettles(DecodeResponses)

NextDecode == SendMessage \/ BodyArrives

SpecDecode == InitDecode /\ [][NextDecode]_vars

\* C14: when a call's request is answered with a 2xx status and a parsed JSON
\* object that lacks the reply field of the call's translator (OpenAI-compatible:
\* no or empty choices, a choice without message, content that is neither string
\* nor array; Anthropic: no or empty content, a first block without text; Google:
\* no or empty candidates, a first candidate without content, parts or text), the
\* adapter returns the empty string: sendMessage resolves to "" and, no other
\* call having run meanwhile, has appended the user turn and an assistant turn
\* with empty content.
C14_LenientDecode ==
    (Settled /\ last.resp.kind = "http" /\ last.resp.json \in Lacking(last.translator)) =>
        /\ last.adapter = Return(<<>>)
        /\ last.settled = "resolved"
        /\ last.value = <<>>
        /\ last.alone =>
             /\ Len(History(last.sess)) = last.preLen + 2
             /\ History(last.sess)[last.preLen + 2] = ChatMessage("assistant", <<>>)

\* C14 witness: the Google translator was answered with an empty candidates list
C14_Witness ==
    /\ Settled /\ last.alone
    /\ last.translator = "gemini"
    /\ last.resp.json = Obj([candidates |-> Arr(<<>>)])
    /\ last.value = <<>>

\* choices[0].message.content of a parsed body
ContentOf(json) == Get(Get(OptFirst(Get(json, "choices")), "message"), "content")

\* an array whose entries are objects with a type, the 'text' ones with a string text
IsPartsArray(c) ==
    /\ c.t = "array"
    /\ \A i \in 1..Len(c.v) :
          /\ c.v[i].t = "object"
          /\ "type" \in DOMAIN c.v[i]
          /\ c.v[i].type = Str(<<"text">>) => ("text" \in DOMAIN c.v[i] /\ c.v[i].text.t = "string")

\* the text fields of the parts of type 'text', in order
RECURSIVE TextFields(_)
TextFields(parts) ==
    IF parts = <<>> THEN <<>>
    ELSE (IF parts[1].type = Str(<<"text">>) THEN << parts[1].text.v >> ELSE <<>>)
         \o TextFields(Tail(parts))

RECURSIVE NewlineJoined(_)
NewlineJoined(lines) ==
    IF lines = <<>> THEN <<>>
    ELSE IF Len(lines) = 1 THEN lines[1]
    ELSE lines[1] \o <<"\n">> \o NewlineJoined(Tail(lines))

\* C17: when the OpenAI-compatible translator is answered with a 2xx status and
\* choices[0].message.content is a string, the adapter returns that string
\* unchanged; when it is an array of parts, the adapter returns the text fields
\* of the parts of type 'text', in their order, joined by a newline.  sendMessage
\* resolves to that value.
C17_OpenAIContent ==
    (Settled /\ last.translator = "openai" /\ last.resp.kind = "http" /\ ResponseOk(last.resp)
       /\ ~Nullish(last.resp.json)) =>
        LET c == ContentOf(last.resp.json)
        IN  /\ c.t = "string" =>
                  (last.adapter = Return(c.v) /\ last.settled = "resolved" /\ last.value = c.v)
            /\ IsPartsArray(c) =>
                  /\ last.adapter = Return(NewlineJoined(TextFields(c.v)))
                  /\ last.settled = "resolved"
                  /\ last.value = NewlineJoined(TextFields(c.v))

\* C17 witness: a text part, a part of another type and a second text part were decoded
C17_Witness ==
    /\ Settled /\ last.translator = "openai"
    /\ ContentOf(last.resp.json) =
          Arr(<< TextPart(<<"a">>), Obj([type |-> Str(<<"image_url">>), text |-> Str(<<"x">>)]),
                 TextPart(<<"b">>) >>)
    /\ last.value = <<"a", "\n", "b">>

-----------------------------------------------------------------------------
(* SpecTurns: a session of each translator over several turns, so that the *)
(* history a request is built from holds assistant turns and turns whose   *)
(* call failed.                                                            *)

MaxTurns == 5

TurnTexts == { <<"q1">>, <<"q2">> }

TurnInputs ==
    { <<"openai", ProviderConfig(Str(<<"sk-1">>), Null, Null)>>,
      <<"claude", ProviderConfig(Str(<<"sk-1">>), Null, Null)>>,
      <<"gemini", ProviderConfig(Str(<<"sk-1">>), Null, Null)>>,
      <<"claude", ProviderConfig(Str(<<"sk-1">>), Str(ProxyUrl), Null)>> }

InitTurns ==
    /\ \E in \in TurnInputs :
         /\ heap = << in[2] >>
         /\ sessions = << NewChatSession(in[1], 1, in[2]) >>
    /\ calls = <<>>
    /\ last = NoCall
    /\ AppIdle

TurnSend ==
    \E text \in TurnTexts :
       /\ Len(sessions[1].messages) < MaxTurns
       /\ Len(calls) < MaxInFlight
       /\ SendMessageStart(1, text, FALSE)
       /\ UNCHANGED <<heap, appVars>>

TurnResponses ==
    { [kind |-> "network"],
      HttpResponse(200, <<"{...}">>, BodyAny),
      HttpResponse(404, <<"not ", "found">>, BodyHtml),
      HttpResponse(503, <<>>, BodyHtml) }

TurnSettles == FetchSettles(TurnResponses)

NextTurns == TurnSend \/ TurnSettles

SpecTurns == InitTurns /\ [][NextTurns]_vars

\* C21: when the request of a call, of whichever translator, is answered with a
\* status outside 200..299, the adapter throws an error whose message holds the
\* status in decimal and, after it, the text of the response body unchanged;
\* sendMessage resolves to "Error: " followed by that message, and records no
\* assistant turn.
C21_HttpErrorSurfaced ==
    (Settled /\ last.resp.kind = "http" /\ ~ResponseOk(last.resp)) =>
        /\ last.adapter.threw
        /\ Contains(last.adapter.value, << ToString(last.resp.status) >>)
        /\ \E k \in 1..Len(last.adapter.value) :
              /\ last.adapter.value[k] = ToString(last.resp.status)
              /\ k + 1 + Len(last.resp.text) = Len(last.adapter.value)
              /\ SubSeq(last.adapter.value, k + 2, Len(last.adapter.value)) = last.resp.text
        /\ last.settled = "resolved"
        /\ last.value = <<"Error: ">> \o last.adapter.value
        /\ last.alone => History(last.sess)[Len(History(last.sess))].role = "user"

\* C21 witness: the Google translator was answered with status 404 and a body text
C21_Witness ==
    /\ Settled
    /\ last.translator = "gemini"
    /\ last.resp.kind = "http" /\ last.resp.status = 404
    /\ last.value = <<"Error: ", "API request failed (", "404", "): ", "not ", "found">>

\* SpecSerial: as SpecTurns, a call being started only when the session has
\* none in flight; the session can be reset at any time.
SerialSend ==
    /\ calls = <<>>
    /\ TurnSend

NextSerial == SerialSend \/ TurnSettles \/ Reset

SpecSerial == InitTurns /\ [][NextSerial]_vars

\* the number of entries of role r in a list of messages
RECURSIVE CountRole(_, _)
CountRole(h, r) ==
    IF h = <<>> THEN 0
    ELSE (IF h[1].role = r THEN 1 ELSE 0) + CountRole(Tail(h), r)

\* the message list of a request
RequestList(req) ==
    IF req.translator = "gemini" THEN req.body.contents ELSE req.body.messages

\* C24: with at most one sendMessage in flight per session, every assistant turn
\* of a history comes right after a user turn, and a history has no more
\* assistant turns than user turns; the user turn of a failed call stays in the
\* history, and the request of a later call carries every user turn of the
\* history, those of failed calls included (both stated for a call during which
\* the session was not reset).
C24_TurnsPaired ==
    /\ \A s \in Live :
          /\ \A k \in 2..Len(History(s)) :
                History(s)[k].role = "assistant" => (k > 2 /\ History(s)[k - 1].role = "user")
          /\ CountRole(History(s), "assistant") <= CountRole(History(s), "user")
    /\ (Settled /\ last.adapter.threw /\ last.alone) =>
          History(last.sess)[Len(History(last.sess))] = ChatMessage("user", last.text)
    /\ \A i \in 1..Len(calls) :
          (calls[i].req # NoRequest /\ calls[i].alone) =>
             CountRole(RequestList(calls[i].req), "user")
                = CountRole(History(calls[i].sess), "user")

\* C24: the Anthropic translator sends two consecutive user turns, the first one
\* left by a failed call
C24_Witness ==
    \E i \in 1..Len(calls) :
       /\ calls[i].req.translator = "claude"
       /\ History(calls[i].sess) = << ChatMessage("system", SYSTEM_INSTRUCTION),
                                      ChatMessage("user", <<"q1">>),
                                      ChatMessage("user", <<"q2">>) >>
       /\ calls[i].req.body.messages = << ChatMessage("user", <<"q1">>),
                                          ChatMessage("user", <<"q2">>) >>

\* the step is the start of a sendMessage call
CallStarts == Len(calls') = Len(calls) + 1

\* the call that the step starts, and the history of its session at the time
\* of the call (the user turn appended)
NewCall    == calls'[Len(calls')]
NewHistory == sessions'[NewCall.sess].messages

NativeRole(translator, role) ==
    IF role = "assistant"
    THEN (IF translator = "gemini" THEN "model" ELSE "assistant")
    ELSE "user"

\* C18: a request of the Anthropic or of the Google translator has no entry of
\* role system in its message list; the content of the history's system message
\* is its system field (Anthropic) or systemInstruction.parts[0].text (Google);
\* the list has one entry for every other history entry, in the history's order
\* and with its content, of role assistant (Anthropic) or model (Google) for an
\* assistant turn and of role user for any other.
C18_SystemLifted ==
    [][ CallStarts =>
          LET req == NewCall.req
              h   == NewHistory
          IN  /\ req.translator = "claude" =>
                    /\ h[1].role = "system"
                    /\ req.body.system = h[1].content
                    /\ Len(req.body.messages) = Len(h) - 1
                    /\ \A k \in 1..(Len(h) - 1) :
                          /\ req.body.messages[k].role # "system"
                          /\ req.body.messages[k] =
                                ChatMessage(NativeRole("claude", h[k + 1].role), h[k + 1].content)
              /\ req.translator = "gemini" =>
                    /\ h[1].role = "system"
                    /\ req.body.systemInstruction = [ parts |-> << [text |-> h[1].content] >> ]
                    /\ Len(req.body.contents) = Len(h) - 1
                    /\ \A k \in 1..(Len(h) - 1) :
                          /\ req.body.contents[k].role # "system"
                          /\ req.body.contents[k] =
                                [ role  |-> NativeRole("gemini", h[k + 1].role),
                                  parts |-> << [text |-> h[k + 1].content] >> ] ]_vars

\* C18 witness: a Google request built from a history with an assistant turn
\* and two different user turns
C18_Witness ==
    \E i \in 1..Len(calls) :
       /\ calls[i].req.translator = "gemini"
       /\ Len(calls[i].req.body.contents) = 3
       /\ calls[i].req.body.contents[1].parts = << [text |-> <<"q1">>] >>
       /\ calls[i].req.body.contents[2].role = "model"
       /\ calls[i].req.body.contents[3].parts = << [text |-> <<"q2">>] >>

\* C19: the message list of a request of the OpenAI-compatible translator is the
\* session's history at the time of the call: the system instruction first,
\* every entry with its role and content, and last the user turn the call has
\* just appended.
C19_WholeHistory ==
    [][ (CallStarts /\ NewCall.req.translator = "openai") =>
          LET req == NewCall.req
              h   == NewHistory
          IN  /\ h = Append(sessions[NewCall.sess].messages, ChatMessage("user", NewCall.text))
              /\ Len(req.body.messages) = Len(h)
              /\ \A k \in 1..Len(h) : req.body.messages[k] = h[k]
              /\ req.body.messages[1] = ChatMessage("system", SYSTEM_INSTRUCTION)
              /\ req.body.messages[Len(h)] = ChatMessage("user", NewCall.text) ]_vars

\* C19 witness: an OpenAI-compatible request built from a history with an
\* assistant turn between two different user turns
C19_Witness ==
    \E i \in 1..Len(calls) :
       /\ calls[i].req.translator = "openai"
       /\ Len(calls[i].req.body.messages) = 4
       /\ calls[i].req.body.messages[2] = ChatMessage("user", <<"q1">>)
       /\ calls[i].req.body.messages[3].role = "assistant"
       /\ calls[i].req.body.messages[4] = ChatMessage("user", <<"q2">>)

-----------------------------------------------------------------------------
(* SpecRoute: the first sendMessage of a session of every provider over    *)
(* every base URL.                                                         *)

RouteUrls ==
    { defaultBaseUrl(p) : p \in LLMProviders }
    \cup { ProxyUrl,
           <<"https://", "api.", "anthropic.com", "/">>,
           <<"https://", "anthropic.com", ".relay.example.com", "/", "v1">>,
           <<"https://", "my-proxy.example.com", "/", "anthropic.com", "/", "v1">>,
           <<"https://", "my-proxy.example.com", "/", "v1", "?", "upstream=", "googleapis.com">> }

RouteInputs ==
    { <<p, ProviderConfig(Str(<<"sk-1">>), u, m)>> :
         p \in LLMProviders,
         u \in {Undefined, Null, Str(<<>>)} \cup { Str(x) : x \in RouteUrls },
         m \in {Null, Str(<<"m-1">>)} }

InitRoute ==
    /\ \E in \in RouteInputs :
         /\ heap = << in[2] >>
         /\ sessions = << NewChatSession(in[1], 1, in[2]) >>
    /\ calls = <<>>
    /\ last = NoCall
    /\ AppIdle

FirstSend ==
    \E text \in Texts :
       /\ Len(sessions[1].messages) = 1
       /\ calls = <<>>
       /\ SendMessageStart(1, text, FALSE)
       /\ UNCHANGED <<heap, appVars>>

NextRoute == FirstSend \/ SettleFetch

SpecRoute == InitRoute /\ [][NextRoute]_vars

\* the session, provider and effective base URL of suspended call i
CallSession(i)  == sessions[calls[i].sess]
CallBaseUrl(i)  == EffectiveBaseUrl(CallSession(i).provider, heap[CallSession(i).config])
CallKey(i)      == heap[CallSession(i).config].api_key.v

\* C7 (as claimed): a request of provider claude goes through the Anthropic
\* translator exactly when the host of the effective base URL contains
\* anthropic.com, and otherwise through the OpenAI-compatible one; likewise for
\* gemini and googleapis.com.
C7_RouteByHost ==
    \A i \in 1..Len(calls) :
       /\ CallSession(i).provider = "claude" =>
             calls[i].req.translator =
                IF Includes(Host(CallBaseUrl(i)), "anthropic.com") THEN "claude" ELSE "openai"
       /\ CallSession(i).provider = "gemini" =>
             calls[i].req.translator =
                IF Includes(Host(CallBaseUrl(i)), "googleapis.com") THEN "gemini" ELSE "openai"

\* C7: the case of the claim that fails has been reached: the vendor domain is in
\* the base URL but not in its host
C7_Witness ==
    \E i \in 1..Len(calls) :
       /\ CallSession(i).provider = "claude"
       /\ Includes(CallBaseUrl(i), "anthropic.com")
       /\ ~Includes(Host(CallBaseUrl(i)), "anthropic.com")

\* C8: every request of a session of provider openai, qwen or deepseek is the
\* OpenAI-compatible one: a POST to the base URL (trailing slash dropped) plus
\* /chat/completions that carries Authorization: Bearer <credential>.
C8_OpenAIFamily ==
    \A i \in 1..Len(calls) :
       CallSession(i).provider \in {"openai", "qwen", "deepseek"} =>
          /\ calls[i].req.translator = "openai"
          /\ calls[i].req.method = "POST"
          /\ calls[i].req.url = StripTrailingSlash(CallBaseUrl(i)) \o <<"/chat/completions">>
          /\ <<"Authorization", <<"Bearer ">> \o CallKey(i)>> \in calls[i].req.headers

\* C8 witness: a qwen request whose base URL contains googleapis.com
C8_Witness ==
    \E i \in 1..Len(calls) :
       /\ CallSession(i).provider = "qwen"
       /\ Includes(CallBaseUrl(i), "googleapis.com")

\* the headers of a request whose value holds the credential
CredentialHeaders(req, key) == { h \in req.headers : Contains(h[2], key) }

HeaderNames(req) == { h[1] : h \in req.headers }

\* C20: a request carries the session's credential in one place only.  The
\* OpenAI-compatible request has it in the header Authorization: Bearer
\* <credential>, in no other header and not in the URL; the Anthropic request has
\* it in the header x-api-key, sent with anthropic-version: 2023-06-01, in no other
\* header, has no Authorization header and not in the URL; the Google request has
\* it as the key query parameter that ends the URL, and in no header.
C20_CredentialPlace ==
    \A i \in 1..Len(calls) :
       calls[i].req # NoRequest =>
          LET req == calls[i].req
              key == CallKey(i)
          IN  /\ req.translator = "openai" =>
                    /\ CredentialHeaders(req, key) = { <<"Authorization", <<"Bearer ">> \o key>> }
                    /\ ~Contains(req.url, key)
              /\ req.translator = "claude" =>
                    /\ CredentialHeaders(req, key) = { <<"x-api-key", key>> }
                    /\ <<"anthropic-version", <<"2023-06-01">>>> \in req.headers
                    /\ "Authorization" \notin HeaderNames(req)
                    /\ ~Contains(req.url, key)
              /\ req.translator = "gemini" =>
                    /\ CredentialHeaders(req, key) = {}
                    /\ HeaderNames(req) = {"Content-Type"}
                    /\ Len(req.url) > Len(key) + 1
                    /\ SubSeq(req.url, Len(req.url) - Len(key), Len(req.url))
                          = <<":generateContent?key=">> \o key
                    /\ ~Contains(SubSeq(req.url, 1, Len(req.url) - Len(key)), key)

\* C20 witness: a request of the Google translator is in flight, its URL
\* holding the credential
C20_Witness ==
    \E i \in 1..Len(calls) :
       /\ calls[i].req.translator = "gemini"
       /\ Contains(calls[i].req.url, CallKey(i))

-----------------------------------------------------------------------------
(* SpecCreate: createChatSession over every configuration.                 *)

ApiKeys == { Undefined, Null, Str(<<>>), Str(<<"sk-1">>) }

ProviderOrder == <<"openai", "claude", "gemini", "qwen", "deepseek">>

DefaultProviderConfig(p, key) ==
    ProviderConfig(key, Str(defaultBaseUrl(p)), Str(defaultModel(p)))

\* a provider's entry: absent from config.providers, or an object with this key
Entries == ApiKeys \cup { [t |-> "absent"] }

InitCreate ==
    /\ \E entry \in [1..5 -> Entries], chosen \in LLMProviders \cup {"mistral"} :
         /\ heap = [i \in 1..5 |->
                      DefaultProviderConfig(ProviderOrder[i],
                          IF entry[i].t = "absent" THEN Null ELSE entry[i])]
         /\ config = [ hexo_path    |-> Null,
                       llm_provider |-> chosen,
                       providers    |-> [p \in LLMProviders |->
                            LET i == CHOOSE j \in 1..5 : ProviderOrder[j] = p
                            IN  IF entry[i].t = "absent" THEN 0 ELSE i] ]
    /\ sessions = <<>>
    /\ calls = <<>>
    /\ last = NoCall
    /\ isPathSet = FALSE
    /\ chatSessionRef = 0
    /\ chatHistory = <<>>
    /\ chatInput = <<>>
    /\ draftResponse = <<>>
    /\ isAiThinking = FALSE
    /\ showQuickSettings = FALSE
    /\ localConfig = Null
    /\ isSaving = FALSE
    /\ saves = <<>>
    /\ created = NoCall
    /\ TrashClosed
    /\ EditorIdle

CreateSession ==
    /\ created = NoCall
    /\ AssignSession(config)
    /\ created' = [ cfg |-> config, result |-> chatSessionRef' ]
    /\ UNCHANGED <<trashVars, editorVars, heap, calls, last, config, isPathSet, panelVars, settingsVars>>

NextCreate == CreateSession

SpecCreate == InitCreate /\ [][NextCreate]_vars

\* C6: createChatSession(config) returns null exactly when the selected provider
\* has no configuration object or one whose api_key is undefined, null or empty;
\* otherwise it returns a session of the selected provider, holding the selected
\* provider's configuration, whose history is the system instruction alone.
C6_NullIffNoKey ==
    created # NoCall =>
       LET cfg == created.cfg
           ref == ProviderRef(cfg, cfg.llm_provider)
           configured == /\ ref # 0
                         /\ heap[ref].api_key.t = "string"
                         /\ heap[ref].api_key.v # <<>>
       IN  /\ created.result = 0 <=> ~configured
           /\ created.result = chatSessionRef
           /\ created.result # 0 =>
                /\ sessions[created.result].provider = cfg.llm_provider
                /\ sessions[created.result].config = ref
                /\ sessions[created.result].messages =
                      << ChatMessage("system", SYSTEM_INSTRUCTION) >>

\* C6 witness: null is returned although another provider has a credential
C6_Witness ==
    /\ created # NoCall
    /\ created.result = 0
    /\ \E p \in LLMProviders : HasApiKey(created.cfg, p)

-----------------------------------------------------------------------------
(* Spec: the application.  App.tsx holds the configuration and the current *)
(* chat session; the setup screen, the settings dialog (QuickSettings) and *)
(* the chat panel edit the configuration, replace the session and send     *)
(* messages.                                                               *)

MaxEdits    == 1   \* ProviderConfig objects made by editing a credential or base URL
MaxSessions == 2   \* ChatSession objects constructed
MaxBubbles  == 2   \* handleSendMessage is not started on a chat history this long
MaxSaves    == 1   \* saveConfig requests awaited together

AppConfig(path, provider, providers) ==
    [hexo_path |-> path, llm_provider |-> provider, providers |-> providers]

\* the objects of the configuration the backend has stored: credentials for
\* openai and (behind a proxy) claude
SavedHeap ==
    << ProviderConfig(Str(<<"sk-1">>), Str(defaultBaseUrl("openai")), Str(defaultModel("openai"))),
       ProviderConfig(Str(<<"sk-1">>), Str(ProxyUrl), Str(defaultModel("claude"))),
       DefaultProviderConfig("gemini", Null),
       DefaultProviderConfig("qwen", Null),
       DefaultProviderConfig("deepseek", Null) >>

\* the objects getDefaultConfig() makes
DefaultHeap == [i \in 1..5 |-> DefaultProviderConfig(ProviderOrder[i], Null)]

InitialHeap == SavedHeap \o DefaultHeap

ProviderIndex(p) == CHOOSE j \in 1..5 : ProviderOrder[j] = p

SavedConfig ==
    AppConfig(Str(<<"D:/Blog/my-hexo-site">>), "openai",
              [p \in LLMProviders |-> ProviderIndex(p)])

getDefaultConfig ==
    AppConfig(Null, "openai", [p \in LLMProviders |-> 5 + ProviderIndex(p)])

\* the history variables of the claims about ChatSession and createChatSession
\* are not written by the application's steps
Quiet == UNCHANGED <<last, created>>

Init ==
    /\ heap = InitialHeap
    /\ sessions = <<>>
    /\ calls = <<>>
    /\ last = NoCall
    /\ AppIdle

\* a session can be constructed, or none is needed
CanAssign(cfg) == createChatSession(cfg) = NoSession \/ Len(sessions) < MaxSessions

\* loadInitialConfig: getConfig() answers with the stored configuration, or it
\* fails and the default configuration is used
LoadInitialConfig ==
    /\ config = Null
    /\ \/ /\ config' = SavedConfig
          /\ isPathSet' = TRUE
          /\ AssignSession(SavedConfig)
       \/ /\ config' = getDefaultConfig
          /\ UNCHANGED <<isPathSet, chatSessionRef, sessions>>
    /\ UNCHANGED <<trashVars, editorVars, heap, calls, last, created, panelVars, settingsVars>>

SetupVisible == config # Null /\ ~isPathSet
PanelVisible == config # Null /\ isPathSet /\ ~showQuickSettings

\* setup screen: the provider select
SetupSelectProvider ==
    \E p \in {"gemini", "openai"} :
       /\ SetupVisible
       /\ config.llm_provider # p
       /\ config' = [config EXCEPT !.llm_provider = p]
       /\ Quiet
       /\ UNCHANGED <<trashVars, editorVars, heap, sessions, calls, isPathSet, chatSessionRef, panelVars, settingsVars>>

KeyInputs == { <<>>, <<"sk-2">> }

\* setup screen: the API key input replaces the selected provider's entry by a
\* new object { api_key: newKey }
SetupEditKey ==
    \E newKey \in KeyInputs :
       /\ SetupVisible
       /\ Len(heap) < Len(InitialHeap) + MaxEdits
       /\ heap' = Append(heap, ProviderConfig(Str(newKey), Undefined, Undefined))
       /\ config' = [config EXCEPT !.providers[config.llm_provider] = Len(heap) + 1]
       /\ Quiet
       /\ UNCHANGED <<trashVars, editorVars, sessions, calls, isPathSet, chatSessionRef, panelVars, settingsVars>>

\* handleSetup up to its await of saveConfig(config)
ClickSetup ==
    /\ SetupVisible
    /\ Len(saves) < MaxSaves
    /\ saves' = Append(saves, [from |-> "setup", cfg |-> config, attached |-> FALSE])
    /\ Quiet
    /\ UNCHANGED <<trashVars, editorVars, heap, sessions, calls, config, isPathSet, chatSessionRef, panelVars,
                   showQuickSettings, localConfig, isSaving>>

\* the settings dialog that awaited these requests is gone
Detached(sv) == [i \in 1..Len(sv) |-> [sv[i] EXCEPT !.attached = FALSE]]

\* saveConfig resolves.  handleSetup goes on with the configuration it was
\* called with; QuickSettings.handleSave calls onSaved (App closes the dialog;
\* handleQuickSettingsSaved stores the saved configuration and replaces the
\* session) and onClose
SaveResolves ==
    \E i \in 1..Len(saves) :
       /\ CanAssign(saves[i].cfg)
       /\ AssignSession(saves[i].cfg)
       /\ isPathSet' = TRUE
       /\ IF saves[i].from = "setup"
          THEN /\ saves' = RemoveAt(saves, i)
               /\ UNCHANGED <<config, showQuickSettings, localConfig, isSaving>>
          ELSE /\ config' = saves[i].cfg
               /\ showQuickSettings' = FALSE
               /\ localConfig' = Null
               /\ isSaving' = FALSE
               /\ saves' = Detached(RemoveAt(saves, i))
       /\ Quiet
       /\ UNCHANGED <<trashVars, editorVars, heap, calls, panelVars>>

\* saveConfig rejects: the handler alerts; QuickSettings clears isSaving
SaveRejects ==
    \E i \in 1..Len(saves) :
       /\ saves' = RemoveAt(saves, i)
       /\ isSaving' = IF saves[i].attached THEN FALSE ELSE isSaving
       /\ Quiet /\ UNCHANGED <<trashVars, editorVars, heap, sessions, calls, config, isPathSet, chatSessionRef, panelVars,
                      showQuickSettings, localConfig>>

NotSpace(c) == c # " "

\* mutation of Trim: nothing is trimmed
Trim_Nothing(str) == str

\* String.prototype.trim, on strings whose white space is the token " "
Trim(str) == SelectSeq(str, NotSpace)

ChatInputs == Texts

\* the chat input's onChange
TypeChatInput ==
    \E v \in ChatInputs :
       /\ PanelVisible
       /\ chatInput # v
       /\ chatInput' = v
       /\ Quiet /\ UNCHANGED <<trashVars, editorVars, heap, sessions, calls, config, isPathSet, chatSessionRef, chatHistory, draftResponse, isAiThinking, settingsVars>>

\* handleSendMessage up to its await of sendMessage(chatSessionRef.current, text)
HandleSendMessage ==
    IF Trim(chatInput) = <<>> THEN UNCHANGED vars
    ELSE
      LET create == chatSessionRef = 0 /\ config # Null
          made   == IF create THEN createChatSession(config) ELSE NoSession
          ss     == IF made # NoSession THEN Append(sessions, made) ELSE sessions
          ref    == IF ~create THEN chatSessionRef
                    ELSE IF made = NoSession THEN 0 ELSE Len(sessions) + 1
      IN  /\ Len(chatHistory) < MaxBubbles
          /\ made # NoSession => Len(sessions) < MaxSessions
          /\ chatSessionRef' = ref
          /\ chatInput' = <<>>
          /\ IF ref = 0
             THEN /\ chatHistory' = chatHistory \o
                        << Bubble("user", chatInput),
                           Bubble("model", <<"Please configure the API Key in settings first">>) >>
                  /\ sessions' = ss
                  /\ last' = NoCall
                  /\ UNCHANGED <<calls, draftResponse, isAiThinking>>
             ELSE /\ Len(ss[ref].messages) < MaxHistory
                  /\ Len(calls) < MaxInFlight
                  /\ LET st == Started(ss, calls, ref, chatInput, TRUE)
                     IN  /\ sessions' = st.sessions
                         /\ calls' = st.calls
                         /\ last' = NoCall
                  /\ chatHistory' = Append(chatHistory, Bubble("user", chatInput))
                  /\ isAiThinking' = TRUE
                  /\ UNCHANGED draftResponse
          /\ UNCHANGED <<trashVars, editorVars, heap, config, isPathSet, created, settingsVars>>

\* Enter (without Shift) in the chat input
PressEnter ==
    /\ PanelVisible
    /\ HandleSendMessage

\* the send button, disabled while the input is blank or the AI is thinking
ClickSend ==
    /\ PanelVisible
    /\ Trim(chatInput) # <<>>
    /\ ~isAiThinking
    /\ HandleSendMessage

\* handleNewTopic (the New Chat button)
ClickNewChat ==
    /\ PanelVisible
    /\ CanAssign(config)
    /\ AssignSession(config)
    /\ chatHistory' = <<>>
    /\ draftResponse' = <<>>
    /\ Quiet
    /\ UNCHANGED <<trashVars, editorVars, heap, calls, config, isPathSet, chatInput, isAiThinking,
                   settingsVars>>

\* the providers picked in the selects: one with a stored credential, one without
PanelProviders == { "openai", "gemini" }

\* the provider select of the chat panel
SelectProvider ==
    \E p \in PanelProviders :
       /\ PanelVisible
       /\ config.llm_provider # p
       /\ CanAssign([config EXCEPT !.llm_provider = p])
       /\ config' = [config EXCEPT !.llm_provider = p]
       /\ AssignSession([config EXCEPT !.llm_provider = p])
       /\ Quiet
       /\ UNCHANGED <<trashVars, editorVars, heap, calls, isPathSet, panelVars, settingsVars>>

\* the Settings buttons: QuickSettings mounts with localConfig = config
OpenQuickSettings ==
    /\ PanelVisible
    /\ showQuickSettings' = TRUE
    /\ localConfig' = config
    /\ isSaving' = FALSE
    /\ Quiet /\ UNCHANGED <<trashVars, editorVars, heap, sessions, calls, config, isPathSet, chatSessionRef, panelVars, saves>>

\* QuickSettings.handleProviderChange
QuickProviderChange ==
    \E p \in PanelProviders :
       /\ showQuickSettings
       /\ localConfig.llm_provider # p
       /\ localConfig' = [localConfig EXCEPT !.llm_provider = p]
       /\ Quiet /\ UNCHANGED <<trashVars, editorVars, heap, sessions, calls, config, isPathSet, chatSessionRef, panelVars,
                      showQuickSettings, isSaving, saves>>

\* { ...localConfig.providers[currentProvider], [field]: value || null }
EditedProviderConfig(cfg, field, value) ==
    LET ref == ProviderRef(cfg, cfg.llm_provider)
        old == IF ref = 0 THEN ProviderConfig(Undefined, Undefined, Undefined) ELSE heap[ref]
    IN  [old EXCEPT ![field] = IF value # <<>> THEN Str(value) ELSE Null]

\* mutation of WithProviderField: the provider's object is assigned to in place
WithProviderField_InPlace(cfg, field, value) ==
    LET ref == ProviderRef(cfg, cfg.llm_provider)
    IN  [ heap |-> [heap EXCEPT ![ref] = EditedProviderConfig(cfg, field, value)],
          cfg  |-> cfg ]

\* the heap and the configuration handleProviderConfigChange(field, value) leaves:
\* a new providers map in which the current provider has a new object
WithProviderField(cfg, field, value) ==
    [ heap |-> Append(heap, EditedProviderConfig(cfg, field, value)),
      cfg  |-> [cfg EXCEPT !.providers[cfg.llm_provider] = Len(heap) + 1] ]

FieldInputs ==
    { <<"api_key", <<>>>>, <<"api_key", <<"sk-2">>>>, <<"base_url", ProxyUrl>> }

\* QuickSettings.handleProviderConfigChange
QuickProviderConfigChange ==
    \E in \in FieldInputs :
       /\ showQuickSettings
       /\ Len(heap) < Len(InitialHeap) + MaxEdits
       /\ LET w == WithProviderField(localConfig, in[1], in[2])
          IN  /\ heap' = w.heap
              /\ localConfig' = w.cfg
       /\ Quiet /\ UNCHANGED <<trashVars, editorVars, sessions, calls, config, isPathSet, chatSessionRef, panelVars, showQuickSettings, isSaving, saves>>

\* QuickSettings.handleSave up to its await of saveConfig(localConfig)
QuickSave ==
    /\ showQuickSettings
    /\ ~isSaving
    /\ Len(saves) < MaxSaves
    /\ isSaving' = TRUE
    /\ saves' = Append(saves, [from |-> "quick", cfg |-> localConfig, attached |-> TRUE])
    /\ Quiet /\ UNCHANGED <<trashVars, editorVars, heap, sessions, calls, config, isPathSet, chatSessionRef, panelVars,
                   showQuickSettings, localConfig>>

\* the dialog's close and cancel buttons: QuickSettings unmounts
QuickClose ==
    /\ showQuickSettings
    /\ showQuickSettings' = FALSE
    /\ localConfig' = Null
    /\ isSaving' = FALSE
    /\ saves' = Detached(saves)
    /\ Quiet /\ UNCHANGED <<trashVars, editorVars, heap, sessions, calls, config, isPathSet, chatSessionRef, panelVars>>

\* the responses the chat panel is run against: the fetch fails, or the vendor
\* answers 200 with a reply every decoder reads
PanelResponses == { [kind |-> "network"], HttpResponse(200, <<"{...}">>, BodyAny) }

ReplyArrives == FetchSettles(PanelResponses)

Next ==
    \/ LoadInitialConfig
    \/ SaveResolves \/ SaveRejects
    \/ TypeChatInput \/ PressEnter \/ ClickSend \/ ClickNewChat \/ SelectProvider
    \/ OpenQuickSettings \/ QuickProviderChange \/ QuickProviderConfigChange
    \/ QuickSave \/ QuickClose
    \/ ReplyArrives

Spec == Init /\ [][Next]_vars

-----------------------------------------------------------------------------
(* SpecSetup: the application from the setup screen on, which it shows     *)
(* when no working directory is configured (here: getConfig failed and the *)
(* default configuration is in use).                                       *)

InitSetup ==
    /\ heap = InitialHeap
    /\ sessions = <<>>
    /\ calls = <<>>
    /\ last = NoCall
    /\ config = getDefaultConfig
    /\ isPathSet = FALSE
    /\ chatSessionRef = 0
    /\ chatHistory = <<>>
    /\ chatInput = <<>>
    /\ draftResponse = <<>>
    /\ isAiThinking = FALSE
    /\ showQuickSettings = FALSE
    /\ localConfig = Null
    /\ isSaving = FALSE
    /\ saves = <<>>
    /\ created = NoCall
    /\ TrashClosed
    /\ EditorIdle

NextSetup ==
    \/ SetupSelectProvider \/ SetupEditKey \/ ClickSetup
    \/ SaveResolves \/ SaveRejects
    \/ TypeChatInput \/ PressEnter \/ ClickSend \/ ClickNewChat \/ SelectProvider
    \/ ReplyArrives

SpecSetup == InitSetup /\ [][NextSetup]_vars

-----------------------------------------------------------------------------
(* Claims about the application, checked under Spec                        *)

InFlight(s) == { i \in 1..Len(calls) : calls[i].sess = s }

\* C9: at most one sendMessage call is in flight on a chat session at any time,
\* however the user triggers a send (the send button or Enter in the chat input).
C9_OneInFlight ==
    \A s \in Live : Cardinality(InFlight(s)) <= 1

\* C9 witness: a request is outstanding on the current session, the send button
\* is disabled by the thinking flag, and the chat input holds a new message
C9_Witness ==
    /\ PanelVisible
    /\ isAiThinking
    /\ Trim(chatInput) # <<>>
    /\ chatSessionRef # 0
    /\ Cardinality(InFlight(chatSessionRef)) = 1

\* the address, the credential and the model of a request are those of cfg
RequestUses(req, provider, cfg) ==
    LET baseUrl    == EffectiveBaseUrl(provider, cfg)
        model      == EffectiveModel(provider, cfg)
        translator == Route(provider, baseUrl)
        expected   == BuildRequest(translator, baseUrl, cfg.api_key.v, model, <<>>)
    IN  /\ translator # "unsupported"
        /\ req.translator = translator
        /\ req.url = expected.url
        /\ req.headers = expected.headers
        /\ translator \in {"openai", "claude"} => req.body.model = model

\* C10: whatever configuration changes the application makes after a session is
\* constructed (editing settings, saving, switching provider), the configuration
\* object the session holds still has the credential, base URL and model it had
\* at construction, and every request in flight on the session was built from
\* the session's provider and those values.
C10_SnapshotKept ==
    /\ \A s \in Live : heap[sessions[s].config] = sessions[s].born
    /\ \A i \in 1..Len(calls) :
          ~calls[i].thrown =>
             RequestUses(calls[i].req, sessions[calls[i].sess].provider,
                         sessions[calls[i].sess].born)

\* C10 witness: a request is in flight on a session while the application, after
\* an edit of that provider's settings was saved, holds a different configuration
\* for the provider and a new current session constructed from it
C10_Witness ==
    \E i \in 1..Len(calls) :
       LET s == calls[i].sess
           p == sessions[s].provider
       IN  /\ ~calls[i].thrown
           /\ chatSessionRef \notin {0, s}
           /\ sessions[chatSessionRef].provider = p
           /\ sessions[chatSessionRef].config = config.providers[p]
           /\ sessions[chatSessionRef].born # sessions[s].born
           /\ heap[config.providers[p]] # sessions[s].born

\* the session reference after the step is what createChatSession makes of the
\* configuration the application holds after the step: null when the selected
\* provider has no credential, else a session object that did not exist before,
\* of the selected provider, holding that provider's configuration object, with
\* the system instruction as its whole history
FreshFromCurrentConfig ==
    LET p   == config'.llm_provider
        ref == ProviderRef(config', p)
        has == ref # 0 /\ Truthy(heap'[ref].api_key)
        r   == chatSessionRef'
    IN  /\ r = 0 <=> ~has
        /\ r # 0 =>
             /\ r \notin 1..Len(sessions)
             /\ sessions'[r].provider = p
             /\ sessions'[r].config = ref
             /\ sessions'[r].messages = << ChatMessage("system", SYSTEM_INSTRUCTION) >>

\* C13 (as claimed): every step in which a configuration save completes (setup
\* screen or settings dialog), the provider is switched in the chat panel, or New
\* Chat is clicked replaces the session reference by a fresh construction from
\* the configuration that is current then.
C13_ReplacedFromCurrent ==
    [][ (SaveResolves \/ SelectProvider \/ ClickNewChat) => FreshFromCurrentConfig ]_vars

\* C13: the case of the claim that fails has been reached: the setup screen's save
\* is awaited and the configuration on screen is no longer the one being saved
C13_Witness ==
    \E i \in 1..Len(saves) :
       /\ saves[i].from = "setup"
       /\ saves[i].cfg # config
       /\ HasApiKey(config, config.llm_provider) # HasApiKey(saves[i].cfg, saves[i].cfg.llm_provider)

\* the calls handleSendMessage started that have not settled
UiOutstanding == { i \in 1..Len(calls) : calls[i].ui }

\* C25: the 'AI thinking' flag is true in every state in which a request started
\* by handleSendMessage is outstanding, and a step makes it false only when no
\* such request remains.
C25_ThinkingWhileOutstanding ==
    /\ [](UiOutstanding # {} => isAiThinking)
    /\ [][ (isAiThinking /\ ~isAiThinking') =>
              \A i \in 1..Len(calls') : ~calls'[i].ui ]_vars

\* C25: the case of the claim that fails has been reached: two requests started
\* by handleSendMessage are outstanding while the flag is set
C25_Witness ==
    /\ isAiThinking
    /\ Cardinality(UiOutstanding) = 2

\* C26: when New Chat is clicked while a send is outstanding, the reply that
\* arrives later is not added to the cleared chat history and does not set the
\* draft area: a step that resumes a handleSendMessage started before the last
\* New Chat leaves both as they are, so the visible history never begins with a
\* model bubble and a draft is always the text of a visible model bubble.
C26_LateReplyDropped ==
    /\ [](chatHistory # <<>> => chatHistory[1].role = "user")
    /\ [](draftResponse # <<>> =>
             \E k \in 2..Len(chatHistory) : chatHistory[k] = Bubble("model", draftResponse))
    /\ [][ (ReplyArrives /\ chatHistory = <<>> /\ UiOutstanding # {}) =>
              (chatHistory' = <<>> /\ draftResponse' = draftResponse) ]_vars

\* C26: the case of the claim that fails has been reached: New Chat has emptied
\* the chat history and the draft area while a send is outstanding
C26_Witness ==
    /\ PanelVisible
    /\ chatHistory = <<>>
    /\ draftResponse = <<>>
    /\ UiOutstanding # {}

-----------------------------------------------------------------------------
(* SpecPanel: the chat panel alone (no settings dialog), with white space  *)
(* among the texts typed into the chat input, and with every outstanding   *)
(* HTTP request completing at some time.                                   *)

\* a chat input of white space only
BlankInput == <<" ", " ">>

\* the chat input's onChange, with white space typed
TypeBlank ==
    /\ PanelVisible
    /\ chatInput # BlankInput
    /\ chatInput' = BlankInput
    /\ Quiet /\ UNCHANGED <<trashVars, editorVars, heap, sessions, calls, config, isPathSet, chatSessionRef, chatHistory, draftResponse, isAiThinking, settingsVars>>

NextPanel ==
    \/ LoadInitialConfig
    \/ TypeChatInput \/ TypeBlank \/ PressEnter \/ ClickSend \/ ClickNewChat \/ SelectProvider
    \/ ReplyArrives

SpecPanel == Init /\ [][NextPanel]_vars /\ WF_vars(ReplyArrives)

IsBlank(str) == \A k \in 1..Len(str) : str[k] = " "

\* C27: every handleSendMessage invocation with non-blank input adds exactly one
\* user bubble at once and exactly one model bubble in the end (at once when no
\* session can be made, else in the step in which its request completes, reply or
\* failure alike), that step clears the thinking flag the invocation set, and
\* every outstanding request is followed by a state with none outstanding and the
\* flag clear; an invocation with blank input changes nothing and sends nothing.
C27_OneBubbleEach ==
    /\ [][ (PressEnter \/ ClickSend) =>
              IF IsBlank(chatInput) THEN UNCHANGED vars
              ELSE \/ /\ chatHistory' = Append(chatHistory, Bubble("user", chatInput))
                      /\ Len(calls') = Len(calls) + 1
                      /\ calls'[Len(calls')].ui
                      /\ calls'[Len(calls')].text = chatInput
                      /\ isAiThinking'
                   \/ /\ chatSessionRef' = 0
                      /\ Len(chatHistory') = Len(chatHistory) + 2
                      /\ SubSeq(chatHistory', 1, Len(chatHistory) + 1) =
                            Append(chatHistory, Bubble("user", chatInput))
                      /\ chatHistory'[Len(chatHistory')].role = "model"
                      /\ calls' = calls ]_vars
    /\ [][ ReplyArrives =>
              /\ Len(calls') = Len(calls) - 1
              /\ Len(chatHistory') = Len(chatHistory) + 1
              /\ SubSeq(chatHistory', 1, Len(chatHistory)) = chatHistory
              /\ chatHistory'[Len(chatHistory')].role = "model"
              /\ ~isAiThinking' ]_vars
    /\ [][ Len(chatHistory') > Len(chatHistory) =>
              (PressEnter \/ ClickSend \/ ReplyArrives) ]_vars
    /\ (UiOutstanding # {}) ~> (UiOutstanding = {} /\ ~isAiThinking)

\* C27 witness: a message was sent on a session, its request has completed, and
\* the chat history holds its user bubble and its model bubble, the flag cleared
C27_Witness ==
    /\ chatSessionRef # 0
    /\ calls = <<>>
    /\ ~isAiThinking
    /\ Len(chatHistory) = 2
    /\ chatHistory[1].role = "user"
    /\ chatHistory[2].role = "model"
    /\ Len(sessions[chatSessionRef].messages) > 1

-----------------------------------------------------------------------------
(* The Trash view (components/TrashView.tsx) with its batch confirmation   *)
(* modal (components/ConfirmModal.tsx) and the batch calls of              *)
(* realFileService.  A batch call posts one request per path at once; each *)
(* request settles on its own, and the call resumes its caller when the    *)
(* last one has settled.                                                   *)

MaxBatches == 2
MaxLists   == 1

otherVars == <<chatVars, config, isPathSet, chatSessionRef, created, panelVars, settingsVars, editorVars>>

\* fetchTrash up to its await: the list is hidden behind "Loading...".
FetchTrashStart ==
    /\ isLoading' = TRUE
    /\ lists' = lists + 1

\* The list block of the view is rendered: not loading and not empty.
ListVisible == ~isLoading /\ items # {}

\* The Refresh button.
ClickRefresh ==
    /\ lists < MaxLists
    /\ FetchTrashStart
    /\ UNCHANGED <<items, selected, isBatchRunning, batchTotal, batchCompleted, itemStatuses,
                   batchControllerRef, showBatchDeleteConfirm, input, batches, cancelled, otherVars>>

\* fetchTrash after its await; listTrash answers with the server's list, or
\* with the empty list when the request failed.
ListArrives ==
    /\ lists > 0
    /\ \E list \in SUBSET TrashPaths :
          /\ items' = list
          /\ selected' = selected \cap list
    /\ isLoading' = FALSE
    /\ lists' = lists - 1
    /\ UNCHANGED <<isBatchRunning, batchTotal, batchCompleted, itemStatuses,
                   batchControllerRef, showBatchDeleteConfirm, input, batches, cancelled, otherVars>>

toggleSelect(path) ==
    IF path \in selected THEN selected \ {path} ELSE selected \cup {path}

ToggleSelect ==
    /\ ListVisible
    /\ \E path \in items : selected' = toggleSelect(path)
    /\ UNCHANGED <<items, isLoading, isBatchRunning, batchTotal, batchCompleted, itemStatuses,
                   batchControllerRef, showBatchDeleteConfirm, input, batches, lists, cancelled, otherVars>>

toggleSelectAll ==
    IF Cardinality(selected) = Cardinality(items) THEN {} ELSE items

ToggleSelectAll ==
    /\ ListVisible
    /\ selected' = toggleSelectAll
    /\ UNCHANGED <<items, isLoading, isBatchRunning, batchTotal, batchCompleted, itemStatuses,
                   batchControllerRef, showBatchDeleteConfirm, input, batches, lists, cancelled, otherVars>>

\* One batch call: its paths, the requests not settled yet, whether its
\* signal was aborted, the service's completed counter, whether a request
\* succeeded, the itemStatuses the calling handler closed over, and the
\* confirmation text it was started with.
Batch(kind, paths, typed) ==
    [ kind |-> kind, paths |-> paths, pending |-> paths, aborted |-> FALSE,
      completed |-> 0, hadSuccess |-> FALSE, closure |-> itemStatuses, typed |-> typed ]

\* The finally block of the batch handlers: the selection loses the paths
\* whose status was 'success' in the render the handler was created in.
BatchFinally(b) ==
    /\ isBatchRunning' = FALSE
    /\ batchControllerRef' = 0
    /\ selected' = selected \ { p \in TrashPaths : b.closure[p] = "success" }

\* The handler after its await on the batch call.
BatchResume(b) ==
    /\ IF b.hadSuccess THEN FetchTrashStart ELSE UNCHANGED <<isLoading, lists>>
    /\ BatchFinally(b)

\* The common part of startBatchRestore and confirmAndRunBatchDelete.
RunBatch(kind, typed) ==
    LET b == Batch(kind, selected, typed)
    IN  /\ batchTotal' = Cardinality(selected)
        /\ batchCompleted' = 0
        /\ itemStatuses' = [p \in TrashPaths |-> IF p \in selected THEN "in-progress" ELSE "none"]
        /\ IF selected = {}
              THEN /\ batches' = Append(batches, [b EXCEPT !.closure = NoStatuses])
                   /\ BatchResume(b)
              ELSE /\ batches' = Append(batches, b)
                   /\ batchControllerRef' = Len(batches) + 1
                   /\ isBatchRunning' = TRUE
                   /\ UNCHANGED <<selected, isLoading, lists>>

\* The Restore Selected button (disabled with an empty selection or a running batch).
StartBatchRestore ==
    /\ ListVisible
    /\ selected # {}
    /\ ~isBatchRunning
    /\ Len(batches) < MaxBatches
    /\ RunBatch("restore", <<>>)
    /\ cancelled' = {}
    /\ UNCHANGED <<items, showBatchDeleteConfirm, input, otherVars>>

\* One request of a batch call settles: the service counts it and reports it
\* through onProgress; when it was the last one the handler resumes.  A
\* request whose signal was aborted rejects.
RequestSettles ==
    \E i \in 1..Len(batches) : \E p \in batches[i].pending : \E ok \in BOOLEAN :
       LET b    == batches[i]
           done == [b EXCEPT !.pending = @ \ {p}, !.completed = @ + 1,
                             !.hadSuccess = @ \/ ok]
       IN  /\ b.aborted => ~ok
           /\ batchCompleted' = done.completed
           /\ itemStatuses' = [itemStatuses EXCEPT ![p] = IF ok THEN "success" ELSE "failed"]
           /\ IF done.pending = {}
                 THEN /\ batches' = [batches EXCEPT ![i] = [done EXCEPT !.closure = NoStatuses]]
                      /\ BatchResume(done)
                 ELSE /\ batches' = [batches EXCEPT ![i] = done]
                      /\ UNCHANGED <<isBatchRunning, batchControllerRef, selected, isLoading, lists>>
           /\ UNCHANGED <<items, batchTotal, showBatchDeleteConfirm, input, cancelled, otherVars>>

cancelBatch ==
    /\ batches' = IF batchControllerRef = 0 THEN batches
                  ELSE [batches EXCEPT ![batchControllerRef].aborted = TRUE]
    /\ isBatchRunning' = FALSE
    /\ itemStatuses' = [p \in TrashPaths |->
                          IF itemStatuses[p] = "in-progress" THEN "cancelled" ELSE itemStatuses[p]]

\* The Cancel button, rendered while a batch is running.
ClickCancel ==
    /\ ListVisible
    /\ isBatchRunning
    /\ cancelBatch
    /\ cancelled' = IF batchControllerRef # 0 /\ batches[batchControllerRef].kind = "restore"
                       THEN batches[batchControllerRef].pending ELSE {}
    /\ UNCHANGED <<items, isLoading, selected, batchTotal, batchCompleted, batchControllerRef,
                   showBatchDeleteConfirm, input, lists, otherVars>>

\* The Delete Selected button (disabled like Restore Selected).
StartBatchPermanentDelete ==
    /\ ListVisible
    /\ selected # {}
    /\ ~isBatchRunning
    /\ showBatchDeleteConfirm' = TRUE
    /\ UNCHANGED <<items, isLoading, selected, isBatchRunning, batchTotal, batchCompleted, itemStatuses,
                   batchControllerRef, input, batches, lists, cancelled, otherVars>>

\* ConfirmModal: the confirm button is enabled when no strict label is asked
\* for, or when the input is exactly the label.
STRICT_LABEL == << "DELETE" >>

canConfirm_Lax(strictLabel, typed) == TRUE

canConfirm(strictLabel, typed) ==
    ~(strictLabel # <<>>) \/ typed = strictLabel

ConfirmInputs == { <<>>, << "DELETE" >>, << "delete" >>, << "DELETE", " " >> }

TypeConfirmInput ==
    /\ showBatchDeleteConfirm
    /\ \E t \in ConfirmInputs : input' = t
    /\ UNCHANGED <<items, isLoading, selected, isBatchRunning, batchTotal, batchCompleted, itemStatuses,
                   batchControllerRef, showBatchDeleteConfirm, batches, lists, cancelled, otherVars>>

\* The modal's cancel button; a closed modal clears its input.
ConfirmCancel ==
    /\ showBatchDeleteConfirm
    /\ showBatchDeleteConfirm' = FALSE
    /\ input' = <<>>
    /\ UNCHANGED <<items, isLoading, selected, isBatchRunning, batchTotal, batchCompleted, itemStatuses,
                   batchControllerRef, batches, lists, cancelled, otherVars>>

\* The modal's confirm button.
ConfirmAndRunBatchDelete ==
    /\ showBatchDeleteConfirm
    /\ canConfirm(STRICT_LABEL, input)
    /\ Len(batches) < MaxBatches
    /\ showBatchDeleteConfirm' = FALSE
    /\ input' = <<>>
    /\ RunBatch("delete", input)
    /\ UNCHANGED <<items, cancelled, otherVars>>

\* The Trash view has just been opened: fetchTrash is awaiting the list.
InitTrash ==
    /\ AppIdle
    /\ heap = <<>>
    /\ sessions = <<>>
    /\ calls = <<>>
    /\ last = NoCall

OpenTrash ==
    /\ lists = 0 /\ items = {} /\ batches = <<>> /\ ~isLoading
    /\ FetchTrashStart
    /\ UNCHANGED <<items, selected, isBatchRunning, batchTotal, batchCompleted, itemStatuses,
                   batchControllerRef, showBatchDeleteConfirm, input, batches, cancelled, otherVars>>

NextTrash ==
    \/ OpenTrash \/ ClickRefresh \/ ListArrives
    \/ ToggleSelect \/ ToggleSelectAll
    \/ StartBatchRestore \/ RequestSettles \/ ClickCancel
    \/ StartBatchPermanentDelete \/ TypeConfirmInput \/ ConfirmCancel \/ ConfirmAndRunBatchDelete

SpecTrash == InitTrash /\ [][NextTrash]_vars

\* The requests of batch calls that have not settled.
PendingPaths == UNION { batches[i].pending : i \in 1..Len(batches) }

\* C15: once the requests that were pending when Cancel was clicked during a
\* batch restore have been aborted and have settled, each of their items, as
\* long as it is listed, is shown with status Cancelled.
C15_CancelledShown ==
    \A p \in cancelled :
        (p \in items /\ p \notin PendingPaths) => itemStatuses[p] = "cancelled"

\* A request that was pending at Cancel has been aborted and has settled.
C15_Witness ==
    \E p \in cancelled : p \in items /\ p \notin PendingPaths /\ ~isLoading

\* C16: a permanentDeleteBatch call is made only from the confirmation modal
\* while its input is exactly DELETE; the modal is opened only by Delete
\* Selected with a non-empty selection; cancelling the modal makes no call and
\* leaves selection and items unchanged.
C16_StrictConfirmation ==
    [][ /\ \A i \in 1..Len(batches') :
              (batches'[i].kind = "delete" /\ i > Len(batches)) =>
                  /\ showBatchDeleteConfirm
                  /\ input = << "DELETE" >>
                  /\ batches'[i].typed = << "DELETE" >>
                  /\ batches'[i].paths = selected
        /\ \A i \in 1..Len(batches) :
              /\ batches'[i].kind = batches[i].kind
              /\ batches'[i].paths = batches[i].paths
        /\ (showBatchDeleteConfirm' /\ ~showBatchDeleteConfirm) =>
              (StartBatchPermanentDelete /\ selected # {})
        /\ ConfirmCancel =>
              (batches' = batches /\ selected' = selected /\ items' = items
               /\ ~showBatchDeleteConfirm') ]_vars

\* A batch permanent deletion of selected items has been confirmed and started.
C16_Witness ==
    \E i \in 1..Len(batches) :
        batches[i].kind = "delete" /\ batches[i].paths # {} /\ batches[i].typed = << "DELETE" >>

\* the batches whose requests have not all settled
ActiveBatches == { i \in 1..Len(batches) : batches[i].pending # {} }

\* C30: at most one batch has requests outstanding, and while a batch has
\* requests outstanding the running flag is true and the stored abort controller
\* is that batch's, also when a new batch was started right after an earlier one
\* was cancelled (a cancelled batch counts until its aborted requests have
\* settled only in the first conjunct).
C30_OneBatchActive ==
    /\ Cardinality(ActiveBatches) <= 1
    /\ \A i \in ActiveBatches :
          ~batches[i].aborted => (isBatchRunning /\ batchControllerRef = i)

\* C30: the case of the claim that fails has been reached: a batch was cancelled
\* and, before its aborted requests have settled, a new batch has been started
C30_Witness ==
    \E i, j \in ActiveBatches :
       /\ i < j
       /\ batches[i].aborted
       /\ ~batches[j].aborted
       /\ isBatchRunning
       /\ batchControllerRef = j

-----------------------------------------------------------------------------
(* The editor of App.tsx: the content, its undo and redo history with the  *)
(* debounced history timer, saving, and opening a file.  Each handler and  *)
(* each timer callback is one step; a handler that awaits a request is two *)
(* steps, the second with the values the first closed over.                *)

\* the number of entries the undo stack is cut to: the 100 of newStack.slice(-100),
\* scaled down; no step of the editor depends on the number otherwise
HistoryLimit == 2

\* the savePostContent and getPostContent requests in flight at a time

MaxPostSaves == 1
MaxPostLoads == 1

\* the texts typed into the editor
EditTexts == {"x", "y"}

nonEditorVars == <<chatVars, config, isPathSet, chatSessionRef, created, panelVars, settingsVars, trashVars>>

\* mutation of SliceLast: nothing is cut off
SliceLast_All(stack, n) == stack

\* stack.slice(-n)
SliceLast(stack, n) ==
    IF Len(stack) <= n THEN stack ELSE SubSeq(stack, Len(stack) - n + 1, Len(stack))

Timer(newContent) == [pending |-> TRUE, newContent |-> newContent]

\* handleEditorChange(newContent), the textarea's onChange: the history timer is
\* restarted when the content differs from the last recorded one
EditorChange ==
    \E newContent \in EditTexts :
       /\ ~isLoadingFile
       /\ newContent # editorContent
       /\ editorContent' = newContent
       /\ saveStatus' = "unsaved"
       /\ undoStackTimerRef' = IF lastContentRef # newContent THEN Timer(newContent)
                               ELSE undoStackTimerRef
       /\ held' = held \cup {newContent}
       /\ UNCHANGED <<currentFilename, undoStack, redoStack, lastContentRef, isLoadingFile,
                      posts, postSaves, postLoads, nonEditorVars>>

\* the history timer's callback, 1000 ms after the last restart.  The updater
\* given to setUndoStack reads lastContentRef.current when React runs it: at
\* once, or at the next render, after the callback has assigned newContent.
UndoTimerFires ==
    /\ undoStackTimerRef.pending
    /\ \E pushed \in {lastContentRef, undoStackTimerRef.newContent} :
          undoStack' = SliceLast(Append(undoStack, pushed), HistoryLimit)
    /\ redoStack' = <<>>
    /\ lastContentRef' = undoStackTimerRef.newContent
    /\ undoStackTimerRef' = NoTimer
    /\ UNCHANGED <<currentFilename, editorContent, saveStatus, isLoadingFile, posts, postSaves,
                   postLoads, held, nonEditorVars>>

\* handleUndo (Ctrl+Z)
Undo ==
    /\ undoStack # <<>>
    /\ LET previousContent == undoStack[Len(undoStack)]
       IN  /\ redoStack' = Append(redoStack, editorContent)
           /\ undoStack' = SubSeq(undoStack, 1, Len(undoStack) - 1)
           /\ editorContent' = previousContent
           /\ lastContentRef' = previousContent
           /\ held' = held \cup {previousContent}
    /\ saveStatus' = "unsaved"
    /\ UNCHANGED <<currentFilename, undoStackTimerRef, isLoadingFile, posts, postSaves, postLoads,
                   nonEditorVars>>

\* handleRedo (Ctrl+Y)
Redo ==
    /\ redoStack # <<>>
    /\ LET nextContent == redoStack[Len(redoStack)]
       IN  /\ undoStack' = Append(undoStack, editorContent)
           /\ redoStack' = SubSeq(redoStack, 1, Len(redoStack) - 1)
           /\ editorContent' = nextContent
           /\ lastContentRef' = nextContent
           /\ held' = held \cup {nextContent}
    /\ saveStatus' = "unsaved"
    /\ UNCHANGED <<currentFilename, undoStackTimerRef, isLoadingFile, posts, postSaves, postLoads,
                   nonEditorVars>>

\* handleSave up to its await of savePostContent(currentFilename, editorContent)
HandleSave ==
    /\ currentFilename # NoFile
    /\ Len(postSaves) < MaxPostSaves
    /\ saveStatus' = "saving"
    /\ postSaves' = Append(postSaves, [filename |-> currentFilename, content |-> editorContent])
    /\ UNCHANGED <<currentFilename, editorContent, undoStack, redoStack, lastContentRef,
                   undoStackTimerRef, isLoadingFile, posts, postLoads, held, nonEditorVars>>

\* the save button, disabled without a file and while saving
ClickSave ==
    /\ saveStatus # "saving"
    /\ HandleSave

\* Ctrl+S
PressCtrlS == HandleSave

\* a savePostContent request settles and handleSave resumes: the backend has
\* written the content and the status becomes 'saved', or the request failed
SavePostSettles ==
    \E i \in 1..Len(postSaves), ok \in BOOLEAN :
       /\ postSaves' = RemoveAt(postSaves, i)
       /\ posts' = IF ok THEN [posts EXCEPT ![postSaves[i].filename] = postSaves[i].content]
                   ELSE posts
       /\ saveStatus' = IF ok THEN "saved" ELSE "unsaved"
       /\ UNCHANGED <<currentFilename, editorContent, undoStack, redoStack, lastContentRef,
                      undoStackTimerRef, isLoadingFile, postLoads, held, nonEditorVars>>

\* handleFileClick(filename) up to its await of getPostContent(filename)
FileClick ==
    \E filename \in Files :
       /\ Len(postLoads) < MaxPostLoads
       /\ isLoadingFile' = TRUE
       /\ postLoads' = Append(postLoads, filename)
       /\ UNCHANGED <<currentFilename, editorContent, undoStack, redoStack, saveStatus,
                      lastContentRef, undoStackTimerRef, posts, postSaves, held, nonEditorVars>>

\* a getPostContent request settles and handleFileClick resumes: the file becomes
\* the current one with empty histories, or the request failed
PostLoadSettles ==
    \E i \in 1..Len(postLoads), ok \in BOOLEAN :
       LET filename == postLoads[i]
           content  == posts[filename]
       IN  /\ postLoads' = RemoveAt(postLoads, i)
           /\ isLoadingFile' = FALSE
           /\ IF ok
              THEN /\ currentFilename' = filename
                   /\ editorContent' = content
                   /\ undoStack' = <<>>
                   /\ redoStack' = <<>>
                   /\ lastContentRef' = content
                   /\ saveStatus' = "saved"
                   /\ held' = {content}
              ELSE UNCHANGED <<currentFilename, editorContent, undoStack, redoStack,
                               lastContentRef, saveStatus, held>>
           /\ UNCHANGED <<undoStackTimerRef, posts, postSaves, nonEditorVars>>

InitEditor ==
    /\ AppIdle
    /\ heap = <<>>
    /\ sessions = <<>>
    /\ calls = <<>>
    /\ last = NoCall

NextEditor ==
    \/ EditorChange \/ UndoTimerFires \/ Undo \/ Redo
    \/ ClickSave \/ PressCtrlS \/ SavePostSettles
    \/ FileClick \/ PostLoadSettles

SpecEditor == InitEditor /\ [][NextEditor]_vars

C28_SavedMeansWritten ==
    (saveStatus = "saved" /\ currentFilename # NoFile) => editorContent = posts[currentFilename]

\* C28: the case of the claim that fails has been reached: the content was edited
\* while a save of the current file is in flight
C28_Witness ==
    \E i \in 1..Len(postSaves) :
       /\ postSaves[i].filename = currentFilename
       /\ postSaves[i].content # editorContent
       /\ saveStatus = "unsaved"

\* C29: after a file has been loaded, the undo and redo stacks hold only contents
\* the editor has held for that file since the load.
C29_HistoryOfThisFile ==
    currentFilename # NoFile =>
       /\ \A k \in 1..Len(undoStack) : undoStack[k] \in held
       /\ \A k \in 1..Len(redoStack) : redoStack[k] \in held

\* C29: the case of the claim that fails has been reached: a file has just been
\* loaded while the history timer started by an edit of the previous file is pending
C29_Witness ==
    /\ currentFilename = "b.md"
    /\ undoStack = <<>>
    /\ redoStack = <<>>
    /\ editorContent = posts["b.md"]
    /\ undoStackTimerRef.pending
    /\ undoStackTimerRef.newContent \notin held

====
